---- MODULE Spec2Model ----
(***************************************************************************)
(* Model of sciffer/json_exporter: a Prometheus exporter that fetches JSON *)
(* documents, walks them and exports every numeric or boolean leaf as a    *)
(* gauge.  Two generations of the exporter are in the repository and both  *)
(* are modelled:                                                           *)
(*   variant 1  src/json_exporter.go   (extractJson, matchLabel,           *)
(*                                      delLastLabel)                      *)
(*   variant 2  src/unnamed/part_001   (extractJSON, matchLabels,          *)
(*                                      delLastLabels, lowercase, jmx)     *)
(*                                                                         *)
(* A Go string is a sequence of one-character strings ("atoms"):           *)
(* "a_b" is <<"a", "_", "b">> and "" is <<>>.                              *)
(***************************************************************************)
EXTENDS Integers, Sequences, FiniteSets, TLC

(***************************************************************************)
(* Bounds of the model.                                                    *)
(***************************************************************************)
\* the clock runs from 0 to MaxTime
MaxTime == 3
\* number of concurrent callers of Collect in the concurrent configuration
MaxCollectors == 2

(***************************************************************************)
(* Strings.                                                                *)
(***************************************************************************)
\* strings.ToLower on the atoms the model uses
ToLower(s) ==
    [i \in DOMAIN s |-> CASE s[i] = "A" -> "a"
                          [] s[i] = "B" -> "b"
                          [] s[i] = "D" -> "d"
                          [] OTHER -> s[i]]

\* strconv.Itoa on the natural numbers
Digit(d) ==
    CASE d = 0 -> "0" [] d = 1 -> "1" [] d = 2 -> "2" [] d = 3 -> "3"
      [] d = 4 -> "4" [] d = 5 -> "5" [] d = 6 -> "6" [] d = 7 -> "7"
      [] d = 8 -> "8" [] OTHER -> "9"
RECURSIVE Itoa(_)
Itoa(k) == IF k < 10 THEN <<Digit(k)>> ELSE Itoa(k \div 10) \o <<Digit(k % 10)>>

\* does old occur in s at position i
OccursAt(s, old, i) ==
    /\ i + Len(old) - 1 <= Len(s)
    /\ \A j \in 1..Len(old) : s[i + j - 1] = old[j]

RECURSIVE ReplaceFrom(_, _, _)
ReplaceFrom(s, old, i) ==
    IF i > Len(s) THEN <<>>
    ELSE IF OccursAt(s, old, i) THEN ReplaceFrom(s, old, i + Len(old))
    ELSE <<s[i]>> \o ReplaceFrom(s, old, i + 1)

\* strings.Replace(s, old, "", -1): every non-overlapping occurrence removed
StringsReplace(s, old) ==
    IF Len(old) = 0 THEN s ELSE ReplaceFrom(s, old, 1)

(***************************************************************************)
(* Regular expressions.  A compiled regexp is one of the shape             *)
(*     [^] pre [ ([^_]) ] post [$]                                         *)
(* pre and post literal strings, grp = 1 when there is a capture group     *)
(* (one character other than '_').  nil = TRUE is the nil *regexp.Regexp.  *)
(***************************************************************************)
NilRegexp ==
    [nil |-> TRUE, anchS |-> FALSE, pre |-> <<>>, grp |-> 0, post |-> <<>>,
     anchE |-> FALSE]

Regexp(anchS, pre, grp, post, anchE) ==
    [nil |-> FALSE, anchS |-> anchS, pre |-> pre, grp |-> grp, post |-> post,
     anchE |-> anchE]

RegexpLen(re) == Len(re.pre) + re.grp + Len(re.post)

RegexpMatchAt(re, s, i) ==
    /\ i + RegexpLen(re) - 1 <= Len(s)
    /\ re.anchS => i = 1
    /\ re.anchE => i + RegexpLen(re) - 1 = Len(s)
    /\ OccursAt(s, re.pre, i)
    /\ re.grp = 1 => s[i + Len(re.pre)] # "_"
    /\ OccursAt(s, re.post, i + Len(re.pre) + re.grp)

\* (*Regexp).MatchString
MatchString(re, s) == \E i \in 1..(Len(s) + 1) : RegexpMatchAt(re, s, i)

\* (*Regexp).FindStringSubmatch: <<>> (nil) without a match, else the
\* leftmost match followed by the text of the capture group, if any
FindStringSubmatch(re, s) ==
    IF ~MatchString(re, s) THEN <<>>
    ELSE LET i == CHOOSE i \in 1..(Len(s) + 1) :
                     /\ RegexpMatchAt(re, s, i)
                     /\ \A j \in 1..(i - 1) : ~RegexpMatchAt(re, s, j)
             whole == SubSeq(s, i, i + RegexpLen(re) - 1)
         IN  IF re.grp = 1 THEN <<whole, <<s[i + Len(re.pre)]>>>>
             ELSE <<whole>>

(***************************************************************************)
(* JSON text.  A text is a sequence of tokens [t |-> kind, v |-> payload]: *)
(* punctuation, white space, number / true / false / null literals, string *)
(* literals (payload: the tokens of the string's content) and single       *)
(* characters.                                                             *)
(***************************************************************************)
P(t) == [t |-> t, v |-> 0]
Ws == [t |-> "ws", v |-> 0]
Num(n) == [t |-> "num", v |-> n]
Bool(b) == [t |-> "bool", v |-> b]
Null == [t |-> "null", v |-> 0]
Chr(c) == [t |-> "chr", v |-> c]
Str(content) == [t |-> "str", v |-> content]
\* a string literal of plain characters
Lit(s) == Str([i \in DOMAIN s |-> Chr(s[i])])

\* the characters of a string content, as a Go string
TokAtom(tok) == IF tok.t = "chr" THEN tok.v ELSE tok.t
GoString(content) == [i \in DOMAIN content |-> TokAtom(content[i])]

RECURSIVE ByteLen(_)
TokLen(tok) ==
    CASE tok.t = "str" -> 2 + ByteLen(tok.v)
      [] tok.t = "bool" -> IF tok.v THEN 4 ELSE 5
      [] tok.t = "null" -> 4
      [] OTHER -> 1
\* len(vv) of a string with this content
ByteLen(content) ==
    IF Len(content) = 0 THEN 0
    ELSE TokLen(Head(content)) + ByteLen(Tail(content))

(***************************************************************************)
(* Decoded JSON values (interface{}): [t |-> kind, v |-> payload] with     *)
(* kind "num", "bool", "str", "null", "obj" (payload: a sequence of        *)
(* [k |-> key, v |-> value], one per key) or "arr" (a sequence of values). *)
(***************************************************************************)
NoValue == [t |-> "null", v |-> 0]
ParseFail == [ok |-> FALSE, val |-> NoValue, next |-> 0]

RECURSIVE SkipWs(_, _)
SkipWs(toks, i) ==
    IF i <= Len(toks) /\ toks[i].t = "ws" THEN SkipWs(toks, i + 1) ELSE i

\* m[k] = v on a Go map: a repeated key keeps one entry, with the last value
MapPut(m, k, v) ==
    IF \E i \in DOMAIN m : m[i].k = k
    THEN [i \in DOMAIN m |-> IF m[i].k = k THEN [k |-> k, v |-> v] ELSE m[i]]
    ELSE Append(m, [k |-> k, v |-> v])

Parsed(val, next) == [ok |-> TRUE, val |-> val, next |-> next]

RECURSIVE ParseValue(_, _), ParseMembers(_, _, _), ParseElements(_, _, _)

\* after a member's value r (key at i): the key is stored, then '}' or ','
ParseMemberEnd(toks, m, e) ==
    IF e > Len(toks) THEN ParseFail
    ELSE IF toks[e].t = "}" THEN Parsed([t |-> "obj", v |-> m], e + 1)
    ELSE IF toks[e].t = "," THEN ParseMembers(toks, e + 1, m)
    ELSE ParseFail
ParseMemberValue(toks, i, r, acc) ==
    IF ~r.ok THEN ParseFail
    ELSE ParseMemberEnd(toks, MapPut(acc, GoString(toks[i].v), r.val),
                        SkipWs(toks, r.next))
\* the ':' after the key at i is expected at c
ParseMemberColon(toks, i, c, acc) ==
    IF c > Len(toks) \/ toks[c].t # ":" THEN ParseFail
    ELSE ParseMemberValue(toks, i, ParseValue(toks, c + 1), acc)
ParseMemberKey(toks, i, acc) ==
    IF i > Len(toks) \/ toks[i].t # "str" THEN ParseFail
    ELSE ParseMemberColon(toks, i, SkipWs(toks, i + 1), acc)
\* "key" : value { , "key" : value } '}'
ParseMembers(toks, i0, acc) == ParseMemberKey(toks, SkipWs(toks, i0), acc)

\* after an element: ']' or ','
ParseElementEnd(toks, a, e) ==
    IF e > Len(toks) THEN ParseFail
    ELSE IF toks[e].t = "]" THEN Parsed([t |-> "arr", v |-> a], e + 1)
    ELSE IF toks[e].t = "," THEN ParseElements(toks, e + 1, a)
    ELSE ParseFail
ParseElementValue(toks, r, acc) ==
    IF ~r.ok THEN ParseFail
    ELSE ParseElementEnd(toks, Append(acc, r.val), SkipWs(toks, r.next))
\* value { , value } ']'
ParseElements(toks, i0, acc) == ParseElementValue(toks, ParseValue(toks, i0), acc)

\* after '{' (j the next token that is not white space): '}' or members
ParseObject(toks, j) ==
    IF j <= Len(toks) /\ toks[j].t = "}"
    THEN Parsed([t |-> "obj", v |-> <<>>], j + 1)
    ELSE ParseMembers(toks, j, <<>>)
ParseArray(toks, j) ==
    IF j <= Len(toks) /\ toks[j].t = "]"
    THEN Parsed([t |-> "arr", v |-> <<>>], j + 1)
    ELSE ParseElements(toks, j, <<>>)
ParseValueAt(toks, i) ==
    IF i > Len(toks) THEN ParseFail
    ELSE CASE toks[i].t \in {"num", "bool", "str"} ->
                Parsed([t |-> toks[i].t, v |-> toks[i].v], i + 1)
           [] toks[i].t = "null" -> Parsed(NoValue, i + 1)
           [] toks[i].t = "{" -> ParseObject(toks, SkipWs(toks, i + 1))
           [] toks[i].t = "[" -> ParseArray(toks, SkipWs(toks, i + 1))
           [] OTHER -> ParseFail
\* one JSON value, after optional white space
ParseValue(toks, i0) == ParseValueAt(toks, SkipWs(toks, i0))

\* a decoder that stops at the end of the first value
UnmarshalFirstValue(toks, r) ==
    IF r.ok /\ r.val.t = "obj" THEN [err |-> FALSE, m |-> r.val.v]
    ELSE [err |-> TRUE, m |-> <<>>]

\* the decoded top-level value r as a map[string]interface{}
UnmarshalResult(toks, r) ==
    IF ~r.ok \/ SkipWs(toks, r.next) <= Len(toks)
    THEN [err |-> TRUE, m |-> <<>>]
    ELSE IF r.val.t = "obj" THEN [err |-> FALSE, m |-> r.val.v]
    ELSE IF r.val.t = "null" THEN [err |-> FALSE, m |-> <<>>]
    ELSE [err |-> TRUE, m |-> <<>>]

\* json.Unmarshal(text, &m) with m a nil map[string]interface{}: err is set
\* for a syntax error and for a top-level value that is neither an object
\* nor null; null leaves the map nil (no entries) without an error
Unmarshal(toks) == UnmarshalResult(toks, ParseValue(toks, 1))

\* the first byte of a non-empty string content
FirstByte(content) ==
    LET tok == content[1] IN
    CASE tok.t = "chr" -> tok.v
      [] tok.t = "str" -> "quote"
      [] tok.t = "ws" -> " "
      [] tok.t = "num" -> "digit"
      [] tok.t = "bool" -> IF tok.v THEN "t" ELSE "f"
      [] tok.t = "null" -> "n"
      [] OTHER -> tok.t

(***************************************************************************)
(* Go maps.  gauges, updated and exist are functions on the set of their   *)
(* keys.  A map that is ranged over (of JSON fields, of label regexps) is  *)
(* the sequence of its entries as they were inserted.  The iteration order *)
(* of a Go map is not specified and every range statement takes an order   *)
(* of its own: the runtime keeps a map of up to eight entries in one       *)
(* bucket, in insertion order, starts each range at an entry it draws at   *)
(* random and wraps around.  A function that ranges over a map therefore   *)
(* has a set of possible results, one for each order of each range.        *)
(***************************************************************************)
EmptyMap == [n \in {} |-> 0]
MapSet(m, k, v) == (k :> v) @@ m
\* the entries of m from entry k + 1 on, wrapping around
Rotate(m, k) == [i \in DOMAIN m |-> m[((i - 1 + k) % Len(m)) + 1]]
\* the orders in which one range statement may visit the entries of m
MapRange(m) ==
    IF Len(m) = 0 THEN {m} ELSE {Rotate(m, k) : k \in 0..(Len(m) - 1)}

(***************************************************************************)
(* The exporter.  c is the configuration the constructor received (fixed   *)
(* afterwards), e the mutable part of the Exporter struct during a walk:   *)
(*   labels, labelvalues   the label stack                                 *)
(*   gauges                name -> [labels: the label names the GaugeVec   *)
(*                         was created with, vals: label values -> value]  *)
(*   updated, exist        the generation counters                         *)
(*   panicked              a run-time panic has unwound the walk           *)
(*   obs, rejected         history: the observations accepted by addGauge  *)
(*                         with the label stack they were made under (el,  *)
(*                         ev: the labels at the start of the walk plus    *)
(*                         the labels pushed at the ancestors of the       *)
(*                         node), and the names the filter rejected        *)
(***************************************************************************)

\* a filter in which the whitelist takes precedence
matchMetricWhitelistFirst(c, name) ==
    IF ~c.whitelist.nil /\ MatchString(c.whitelist, name) THEN TRUE
    ELSE IF ~c.blacklist.nil /\ MatchString(c.blacklist, name) THEN FALSE
    ELSE c.whitelist.nil

\* a filter that accepts every name
matchMetricAll(c, name) == TRUE

\* Exporter.matchMetric
matchMetric(c, name) ==
    IF \/ (~c.blacklist.nil /\ MatchString(c.blacklist, name))
       \/ (~c.whitelist.nil /\ ~MatchString(c.whitelist, name))
    THEN FALSE
    ELSE TRUE

\* the loop of matchLabel over the entries in the order r: the first label
\* whose regexp matches; "" when there is none
matchLabelRange(name, r) ==
    LET hits == {i \in DOMAIN r : MatchString(r[i].re, name)}
    IN  IF hits = {} THEN <<>>
        ELSE r[CHOOSE i \in hits : \A j \in hits : i <= j].name
\* Exporter.matchLabel: the results the call may give, one for each order of
\* its range over the map
matchLabel(name, labelRegex) ==
    {matchLabelRange(name, r) : r \in MapRange(labelRegex)}

\* the loop of matchLabels over the entries in the order r: every label
\* whose regexp matches
RECURSIVE matchLabelsRange(_, _)
matchLabelsRange(name, r) ==
    IF Len(r) = 0 THEN <<>>
    ELSE (IF MatchString(Head(r).re, name) THEN <<Head(r).name>> ELSE <<>>)
         \o matchLabelsRange(name, Tail(r))
\* Exporter.matchLabels: the results the call may give, one for each order
\* of its range over the map
matchLabels(name, labelRegex) ==
    {matchLabelsRange(name, r) : r \in MapRange(labelRegex)}

\* e.pathlabels[label]
PathLabelRegexp(c, label) ==
    (CHOOSE pl \in {c.pathlabels[i] : i \in DOMAIN c.pathlabels} : pl.name = label).re

\* GaugeVec.WithLabelValues(e.labelvalues...) panics when the number of
\* values differs from the number of label names the vector was created with
WithLabelValuesPanics(g, labelvalues) == Len(g.labels) # Len(labelvalues)

\* addGauge without the increment of the live counter
addGaugeNoCount(c, e, name0, value, ctx) ==
    LET name == IF c.variant = 2 /\ c.lowercase THEN ToLower(name0) ELSE name0
        exists == name \in DOMAIN e.gauges
        g == IF exists THEN e.gauges[name]
             ELSE [labels |-> e.labels, vals |-> EmptyMap]
    IN  IF ~matchMetric(c, name)
        THEN [e EXCEPT !.rejected = @ \cup {name}]
        ELSE IF WithLabelValuesPanics(g, e.labelvalues)
        THEN [e EXCEPT !.panicked = TRUE]
        ELSE [e EXCEPT
                !.gauges = MapSet(@, name,
                                  [g EXCEPT !.vals = MapSet(@, e.labelvalues, value)]),
                !.updated = MapSet(@, name, IF exists THEN @[name] ELSE 0),
                !.exist = IF exists THEN @ ELSE MapSet(@, name, 0),
                !.obs = @ \cup {[name |-> name, labels |-> e.labels,
                                 labelvalues |-> e.labelvalues, value |-> value,
                                 el |-> ctx.el, ev |-> ctx.ev]}]

\* Exporter.addGauge
addGauge(c, e, name0, value, ctx) ==
    LET name == IF c.variant = 2 /\ c.lowercase THEN ToLower(name0) ELSE name0
        exists == name \in DOMAIN e.gauges
        g == IF exists THEN e.gauges[name]
             ELSE [labels |-> e.labels, vals |-> EmptyMap]
    IN  IF ~matchMetric(c, name)
        THEN [e EXCEPT !.rejected = @ \cup {name}]
        ELSE IF WithLabelValuesPanics(g, e.labelvalues)
        THEN [e EXCEPT !.panicked = TRUE]
        ELSE [e EXCEPT
                !.gauges = MapSet(@, name,
                                  [g EXCEPT !.vals = MapSet(@, e.labelvalues, value)]),
                !.updated = MapSet(@, name, (IF exists THEN @[name] ELSE 0) + 1),
                !.exist = IF exists THEN @ ELSE MapSet(@, name, 0),
                !.obs = @ \cup {[name |-> name, labels |-> e.labels,
                                 labelvalues |-> e.labelvalues, value |-> value,
                                 el |-> ctx.el, ev |-> ctx.ev]}]

\* Exporter.addLabel
addLabel(c, e, name, value) ==
    LET n == IF c.variant = 2 /\ c.lowercase THEN ToLower(name) ELSE name
    IN  [e EXCEPT !.labels = Append(@, n), !.labelvalues = Append(@, value)]

\* the labels pushed at a node, as the subtree of the node expects them
PushCtx(c, ctx, name, value) ==
    LET n == IF c.variant = 2 /\ c.lowercase THEN ToLower(name) ELSE name
    IN  [el |-> Append(ctx.el, n), ev |-> Append(ctx.ev, value)]

\* Exporter.delLastLabel (variant 1)
delLastLabel(e) ==
    LET newLastIndex == Len(e.labels) - 1 IN
    IF newLastIndex >= 0
    THEN [e EXCEPT !.labels = SubSeq(@, 1, newLastIndex),
                   !.labelvalues = SubSeq(@, 1, newLastIndex)]
    ELSE e

\* Exporter.delLastLabels (variant 2)
delLastLabels(e, num) ==
    LET newLastIndex == Len(e.labels) - num IN
    IF newLastIndex >= 0
    THEN [e EXCEPT !.labels = SubSeq(@, 1, newLastIndex),
                   !.labelvalues = SubSeq(@, 1, newLastIndex)]
    ELSE e

\* metric + "_" + k, or k at the root
JoinMetric(metric, k) ==
    IF Len(metric) > 0 THEN metric \o <<"_">> \o k ELSE k

\* the strings.Replacer of the constructor (variant 2): " ,:-=." become "_"
CleanerReplace(s) ==
    [i \in DOMAIN s |-> IF s[i] \in {" ", ",", ":", "-", "=", "."} THEN "_" ELSE s[i]]

\* jmx mode: the "name" field of the object, when it is a string, replaces
\* the metric prefix
JmxMetric(c, metric, jsonInt) ==
    LET nm == <<"n", "a", "m", "e">>
        hit == {i \in DOMAIN jsonInt : jsonInt[i].k = nm /\ jsonInt[i].v.t = "str"}
    IN  IF c.jmx /\ hit # {}
        THEN CleanerReplace(GoString(jsonInt[CHOOSE i \in hit : TRUE].v.v))
        ELSE metric

\* the path-label loop of extractJSON / extractJSONArray (variant 2): st is
\* [e, newMetric, ctx]; for every matched label, in order, the regexp is run
\* again on the working name, and only a result with a capture group
\* rewrites the name and pushes a label
RECURSIVE applyPathLabels(_, _, _)
applyPathLabels(c, st, labels) ==
    IF Len(labels) = 0 THEN st
    ELSE LET label == Head(labels)
             value == FindStringSubmatch(PathLabelRegexp(c, label), st.newMetric)
             stripped == StringsReplace(st.newMetric, value[1])
             st1 == IF Len(value) > 1
                    THEN [e |-> addLabel(c, st.e, label, value[2]),
                          newMetric |-> IF Len(stripped) < 1 THEN label ELSE stripped,
                          ctx |-> PushCtx(c, st.ctx, label, value[2])]
                    ELSE st
         IN  applyPathLabels(c, st1, Tail(labels))

\* history: at a node that path-label regexps matched, the labels that
\* matched, the number of labels the loop has pushed, the labels pushed
\* with their values, and the working name the loop has left are recorded
LabelsApplied(before, st, name, labels) ==
    IF Len(labels) = 0 THEN st
    ELSE [st EXCEPT !.e.applied =
              @ \cup {[node |-> name, matched |-> labels,
                        pushed |-> Len(st.e.labels) - Len(before.labels),
                        pairs |-> {<<st.e.labels[i], st.e.labelvalues[i]>> :
                                      i \in (Len(before.labels) + 1)..Len(st.e.labels)},
                        name |-> st.newMetric]}]

RECURSIVE extractJson(_, _, _, _, _), extractJsonRange(_, _, _, _, _),
          extractJsonArray(_, _, _, _, _, _), extractJsonValue(_, _, _, _, _),
          extractJSON(_, _, _, _, _), extractJSONRange(_, _, _, _, _),
          extractJSONArray(_, _, _, _, _, _), extractJSONValue(_, _, _, _, _)

\* The walkers range over maps, so each of them gives the set of the states
\* in which the call may leave the exporter e.

\* an embedded object walked from the root name
extractJsonStatsAtRoot(c, e, newMetric, stats, ctx) ==
    IF stats.err THEN {e} ELSE extractJson(c, e, <<>>, stats.m, ctx)

\* a string that starts with '{': the walk of the object decoded from it,
\* unless json.Unmarshal failed (variant 1)
extractJsonStats(c, e, newMetric, stats, ctx) ==
    IF stats.err THEN {e} ELSE extractJson(c, e, newMetric, stats.m, ctx)

\* the type switch of extractJson and extractJsonArray (variant 1)
extractJsonValue(c, e, newMetric, v, ctx) ==
    CASE v.t = "str" ->
            IF Len(v.v) = 0
            THEN {[e EXCEPT !.panicked = TRUE]}   \* vv[0]: index out of range
            ELSE IF FirstByte(v.v) = "{"
            THEN extractJsonStats(c, e, newMetric, Unmarshal(v.v), ctx)
            ELSE {e}
      [] v.t = "num" -> {addGauge(c, e, newMetric, v.v, ctx)}
      [] v.t = "bool" -> {addGauge(c, e, newMetric, IF v.v THEN 1 ELSE 0, ctx)}
      [] v.t = "obj" -> extractJson(c, e, newMetric, v.v, ctx)
      [] v.t = "arr" -> extractJsonArray(c, e, newMetric, v.v, 0, ctx)
      [] OTHER -> {e}

\* history: a node (named by its path) whose iteration has ended with a
\* label stack other than the one it began with is recorded
NodeDone(before, after, name) ==
    IF after.panicked
       \/ (after.labels = before.labels /\ after.labelvalues = before.labelvalues)
    THEN after
    ELSE [after EXCEPT !.unbalanced = @ \cup {name}]

\* the end of an iteration: the label pushed at the node is removed
popLabel(e, label) ==
    IF e.panicked THEN e
    ELSE IF label # <<>> THEN delLastLabel(e)
    ELSE e

\* the rest of an iteration once matchLabel has returned label: the label
\* is pushed, the value walked under the working name and the label removed
extractJsonLabelled(c, e, joined, newMetric, label, k, v, ctx) ==
    {NodeDone(e, popLabel(x, label), joined) :
        x \in extractJsonValue(c,
                  IF label # <<>> THEN addLabel(c, e, label, k) ELSE e,
                  newMetric, v,
                  IF label # <<>> THEN PushCtx(c, ctx, label, k) ELSE ctx)}

\* one iteration of the loop with the label pushed and the joined name kept
\* as the working name of the node
extractJsonEntryKeepName(c, e, metric, k, v, ctx) ==
    UNION {extractJsonLabelled(c, e, JoinMetric(metric, k), JoinMetric(metric, k),
                               label, k, v, ctx) :
              label \in matchLabel(JoinMetric(metric, k), c.pathlabels)}

\* one iteration of the loop of extractJson (k a key) and of
\* extractJsonArray (k the decimal index)
extractJsonEntry(c, e, metric, k, v, ctx) ==
    UNION {extractJsonLabelled(c, e, JoinMetric(metric, k),
                               IF label # <<>> THEN label ELSE JoinMetric(metric, k),
                               label, k, v, ctx) :
              label \in matchLabel(JoinMetric(metric, k), c.pathlabels)}

\* the loop of extractJson over the entries in the order chosen
extractJsonRange(c, e, metric, entries, ctx) ==
    IF Len(entries) = 0 \/ e.panicked THEN {e}
    ELSE UNION {extractJsonRange(c, x, metric, Tail(entries), ctx) :
                   x \in extractJsonEntry(c, e, metric, Head(entries).k,
                                          Head(entries).v, ctx)}

\* Exporter.extractJson (variant 1)
extractJson(c, e, metric, jsonInt, ctx) ==
    UNION {extractJsonRange(c, e, metric, r, ctx) : r \in MapRange(jsonInt)}

\* Exporter.extractJsonArray (variant 1), from index k on
extractJsonArray(c, e, metric, jsonInt, k, ctx) ==
    IF k >= Len(jsonInt) \/ e.panicked THEN {e}
    ELSE UNION {extractJsonArray(c, x, metric, jsonInt, k + 1, ctx) :
                   x \in extractJsonEntry(c, e, metric, Itoa(k), jsonInt[k + 1], ctx)}

\* a string that starts with '{': the walk of the object decoded from it,
\* unless json.Unmarshal failed (variant 2)
extractJSONStats(c, e, newMetric, stats, ctx) ==
    IF stats.err THEN {e} ELSE extractJSON(c, e, newMetric, stats.m, ctx)

\* the type switch of extractJSON and extractJSONArray (variant 2)
extractJSONValue(c, e, newMetric, v, ctx) ==
    CASE v.t = "str" ->
            IF ByteLen(v.v) > 2 /\ FirstByte(v.v) = "{"
            THEN extractJSONStats(c, e, newMetric, Unmarshal(v.v), ctx)
            ELSE {e}
      [] v.t = "num" -> {addGauge(c, e, newMetric, v.v, ctx)}
      [] v.t = "bool" -> {addGauge(c, e, newMetric, IF v.v THEN 1 ELSE 0, ctx)}
      [] v.t = "obj" -> extractJSON(c, e, newMetric, v.v, ctx)
      [] v.t = "arr" -> extractJSONArray(c, e, newMetric, v.v, 0, ctx)
      [] OTHER -> {e}

\* the end of an iteration: as many labels as regexps matched are removed
popLabels(e, labels) ==
    IF e.panicked THEN e
    ELSE IF Len(labels) > 0 THEN delLastLabels(e, Len(labels))
    ELSE e

\* the type switch and the removal of the labels, after the path-label loop
\* has left st = [e, newMetric, ctx]
extractJSONLabelled(c, st, v, labels) ==
    {popLabels(x, labels) : x \in extractJSONValue(c, st.e, st.newMetric, v, st.ctx)}

\* one iteration of the loop of extractJSON (k a key) and of
\* extractJSONArray (k the decimal index)
extractJSONEntry(c, e, metric, k, v, ctx) ==
    UNION {{NodeDone(e, x, JoinMetric(metric, k)) :
               x \in extractJSONLabelled(c,
                         LabelsApplied(e,
                             applyPathLabels(c, [e |-> e,
                                                 newMetric |-> JoinMetric(metric, k),
                                                 ctx |-> ctx],
                                             labels),
                             JoinMetric(metric, k), labels),
                         v, labels)} :
              labels \in matchLabels(JoinMetric(metric, k), c.pathlabels)}

\* the loop of extractJSON over the entries in the order chosen
extractJSONRange(c, e, metric, entries, ctx) ==
    IF Len(entries) = 0 \/ e.panicked THEN {e}
    ELSE UNION {extractJSONRange(c, x, metric, Tail(entries), ctx) :
                   x \in extractJSONEntry(c, e, metric, Head(entries).k,
                                          Head(entries).v, ctx)}

\* Exporter.extractJSON (variant 2)
extractJSON(c, e, metric, jsonInt, ctx) ==
    UNION {extractJSONRange(c, e, JmxMetric(c, metric, jsonInt), r, ctx) :
              r \in MapRange(jsonInt)}

\* Exporter.extractJSONArray (variant 2), from index k on
extractJSONArray(c, e, metric, jsonInt, k, ctx) ==
    IF k >= Len(jsonInt) \/ e.panicked THEN {e}
    ELSE UNION {extractJSONArray(c, x, metric, jsonInt, k + 1, ctx) :
                   x \in extractJSONEntry(c, e, metric, Itoa(k), jsonInt[k + 1], ctx)}

\* the walk of one decoded document from the root, by the variant's walker:
\* the states it may leave the exporter in
Walk(c, e, allStats) ==
    LET ctx == [el |-> e.labels, ev |-> e.labelvalues] IN
    IF c.variant = 1 THEN extractJson(c, e, <<>>, allStats, ctx)
    ELSE extractJSON(c, e, <<>>, allStats, ctx)

(***************************************************************************)
(* Start-up: the static labels of main and the value labels of the         *)
(* constructor.                                                            *)
(***************************************************************************)
\* strings.Split(s, ",")
RECURSIVE SplitFrom(_, _, _)
SplitFrom(s, i, cur) ==
    IF i > Len(s) THEN <<cur>>
    ELSE IF s[i] = "," THEN <<cur>> \o SplitFrom(s, i + 1, <<>>)
    ELSE SplitFrom(s, i + 1, Append(cur, s[i]))
Split(s) == SplitFrom(s, 1, <<>>)

\* main, "Importing static labels": the flags -labels and -values are split
\* and compared only when both are non-empty; log.Fatal ends the process
MainLabels(Labels, LabelValues) ==
    IF Len(Labels) > 0 /\ Len(LabelValues) > 0
    THEN [fatal |-> Len(Split(Labels)) # Len(Split(LabelValues)),
          labels |-> Split(Labels),
          labelvalues |-> Split(LabelValues)]
    ELSE [fatal |-> FALSE, labels |-> <<>>, labelvalues |-> <<>>]

\* strconv.FormatFloat(vv, 'E', -1, 64) on the whole numbers 0..99:
\* 5 is "5E+00", 10 is "1E+01", 12 is "1.2E+01"
FormatFloat(n) ==
    IF n < 10 THEN Itoa(n) \o <<"E", "+", "0", "0">>
    ELSE Itoa(n \div 10)
         \o (IF n % 10 = 0 THEN <<>> ELSE <<".">> \o Itoa(n % 10))
         \o <<"E", "+", "0", "1">>

\* strconv.FormatBool
FormatBool(b) == IF b THEN <<"t", "r", "u", "e">> ELSE <<"f", "a", "l", "s", "e">>

\* a match that leaves the label pending
DeleteNoLabel(regexMap, label) == regexMap

\* delete(*regexMap, label)
DeleteLabel(regexMap, label) ==
    SelectSeq(regexMap, LAMBDA pl : pl.name # label)

\* the type switch of extractLabel on a matched field: a string, a number
\* or a boolean adds the label, any other value adds nothing
extractLabelValue(c, e, label, v) ==
    CASE v.t = "str" -> addLabel(c, e, label, GoString(v.v))
      [] v.t = "num" -> addLabel(c, e, label, FormatFloat(v.v))
      [] v.t = "bool" -> addLabel(c, e, label, FormatBool(v.v))
      [] OTHER -> e

RECURSIVE extractLabel(_, _, _, _), extractLabelRange(_, _, _, _)

\* one iteration of the loop of extractLabel once the name is joined and
\* matchLabel has returned label: st is [e, regexMap, log], log the history
\* of the matches; the states the iteration may leave
extractLabelMatched(c, st, newMetric, v, label) ==
    IF label # <<>>
    THEN {[e |-> extractLabelValue(c, st.e, label, v),
           regexMap |-> DeleteLabel(st.regexMap, label),
           log |-> Append(st.log, [label |-> label, name |-> newMetric, t |-> v.t,
                                   v |-> v])]}
    ELSE IF v.t = "obj" THEN extractLabel(c, st, newMetric, v.v)
    ELSE {st}

extractLabelEntry(c, st, metric, k, v) ==
    UNION {extractLabelMatched(c, st, JoinMetric(metric, k), v, label) :
              label \in matchLabel(JoinMetric(metric, k), st.regexMap)}

\* the loop of extractLabel over the entries in the order chosen
extractLabelRange(c, st, metric, entries) ==
    IF Len(entries) = 0 \/ Len(st.regexMap) = 0 THEN {st}
    ELSE UNION {extractLabelRange(c, x, metric, Tail(entries)) :
                   x \in extractLabelEntry(c, st, metric, Head(entries).k,
                                           Head(entries).v)}

\* Exporter.extractLabel
extractLabel(c, st, metric, jsonInt) ==
    UNION {extractLabelRange(c, st, metric, r) : r \in MapRange(jsonInt)}

(***************************************************************************)
(* Documents served by the scraped endpoints.                              *)
(***************************************************************************)
Member(k, v) == [k |-> k, v |-> v]

RECURSIVE JMembers(_), JElements(_)
JMembers(ms) ==
    IF Len(ms) = 0 THEN <<>>
    ELSE <<Lit(Head(ms).k), P(":")>> \o Head(ms).v
         \o (IF Len(ms) > 1 THEN <<P(",")>> ELSE <<>>) \o JMembers(Tail(ms))
JElements(es) ==
    IF Len(es) = 0 THEN <<>>
    ELSE Head(es) \o (IF Len(es) > 1 THEN <<P(",")>> ELSE <<>>) \o JElements(Tail(es))
\* the text of an object with these members, of an array with these elements
JObj(ms) == <<P("{")>> \o JMembers(ms) \o <<P("}")>>
JArr(es) == <<P("[")>> \o JElements(es) \o <<P("]")>>

\* {"a":{"b":5,"c":"hi"},"d":[1,2]}
DocABD ==
    JObj(<<Member(<<"a">>, JObj(<<Member(<<"b">>, <<Num(5)>>),
                                  Member(<<"c">>, <<Lit(<<"h", "i">>)>>)>>)),
           Member(<<"d">>, JArr(<< <<Num(1)>>, <<Num(2)>> >>))>>)
\* {"a":{"c":"hi"},"d":[1,2]}: the field a.b has gone
DocAD ==
    JObj(<<Member(<<"a">>, JObj(<<Member(<<"c">>, <<Lit(<<"h", "i">>)>>)>>)),
           Member(<<"d">>, JArr(<< <<Num(1)>>, <<Num(2)>> >>))>>)
\* {"a":{"b":6},"q":true,"n":null}
DocAQ ==
    JObj(<<Member(<<"a">>, JObj(<<Member(<<"b">>, <<Num(6)>>)>>)),
           Member(<<"q">>, <<Bool(TRUE)>>), Member(<<"n">>, <<Null>>)>>)
\* {"q":false,"D":1}
DocQ == JObj(<<Member(<<"q">>, <<Bool(FALSE)>>), Member(<<"D">>, <<Num(1)>>)>>)
\* {"a":{"b":5,"c":"hi"},"q":true}: two fields below a, and q
DocABQ ==
    JObj(<<Member(<<"a">>, JObj(<<Member(<<"b">>, <<Num(5)>>),
                                  Member(<<"c">>, <<Lit(<<"h", "i">>)>>)>>)),
           Member(<<"q">>, <<Bool(TRUE)>>)>>)
\* {"r":{"m":4}} and {"r":{"v":4}}: one leaf, below the key m or the key v
DocRM == JObj(<<Member(<<"r">>, JObj(<<Member(<<"m">>, <<Num(4)>>)>>))>>)
DocRV == JObj(<<Member(<<"r">>, JObj(<<Member(<<"v">>, <<Num(4)>>)>>))>>)
\* {"p":7}: a leaf whose key is the name of a path label
DocP == JObj(<<Member(<<"p">>, <<Num(7)>>)>>)
\* {"q":true}x : an object followed by garbage
DocTrailing == JObj(<<Member(<<"q">>, <<Bool(TRUE)>>)>>) \o <<Chr("x")>>
\* null
DocNull == <<Null>>
\* {"a":{"b":"hi"},"q":"no"}: strings where the other documents have numbers
DocStrings ==
    JObj(<<Member(<<"a">>, JObj(<<Member(<<"b">>, <<Lit(<<"h", "i">>)>>)>>)),
           Member(<<"q">>, <<Lit(<<"n", "o">>)>>)>>)
\* [1]: valid JSON, not an object
DocArray == JArr(<< <<Num(1)>> >>)
\* {"a":1 : truncated
DocTruncated == <<P("{"), Lit(<<"a">>), P(":"), Num(1)>>
\* {"a":"{\"b\":5}","s":" {\"b\":7}","t":"{\"b\":","o":"{}","d":["{\"e\":true}"]}
\* strings holding an object, an object after a blank, a truncated object,
\* an empty object
DocEmbedded ==
    JObj(<<Member(<<"a">>, <<Str(JObj(<<Member(<<"b">>, <<Num(5)>>)>>))>>),
           Member(<<"s">>, <<Str(<<Ws>> \o JObj(<<Member(<<"b">>, <<Num(7)>>)>>))>>),
           Member(<<"t">>, <<Str(<<P("{"), Lit(<<"b">>), P(":")>>)>>),
           Member(<<"o">>, <<Str(JObj(<<>>))>>),
           Member(<<"d">>, JArr(<< <<Str(JObj(<<Member(<<"e">>, <<Bool(TRUE)>>)>>))>> >>))>>)
\* {"e":"","q":5}: an empty string before a number
DocEmpty == JObj(<<Member(<<"e">>, <<Lit(<<>>)>>), Member(<<"q">>, <<Num(5)>>)>>)
\* {"r":{"m":4,"v":{"n":2,"w":{"k":3}}},"q":5}: the document of the test
\* (pathroot = r, pathvalue1 = v, pathvalue2 = w, metric1..4 = n, k, m, q)
DocPath ==
    JObj(<<Member(<<"r">>,
              JObj(<<Member(<<"m">>, <<Num(4)>>),
                     Member(<<"v">>,
                         JObj(<<Member(<<"n">>, <<Num(2)>>),
                                Member(<<"w">>, JObj(<<Member(<<"k">>, <<Num(3)>>)>>))>>))>>)),
           Member(<<"q">>, <<Num(5)>>)>>)

Ok(body) == [err |-> "none", body |-> body]
\* client.Get fails; ioutil.ReadAll fails
GetError == [err |-> "get", body |-> <<>>]
ReadError == [err |-> "read", body |-> <<>>]

(***************************************************************************)
(* Configurations: the arguments of the constructor, the number of         *)
(* concurrent callers of Collect, and for every URL the responses its      *)
(* endpoint may give.  Every scenario is run by both variants (lowercase   *)
(* and jmx exist in variant 2 only).                                       *)
(***************************************************************************)
\* the default of the flag -interval, 1*time.Minute, in minutes
DefaultInterval == 1
BaseConfig ==
    [variant |-> 1, Urls |-> <<1>>, interval |-> DefaultInterval,
     Labels |-> <<>>, LabelValues |-> <<>>,
     blacklist |-> NilRegexp, whitelist |-> NilRegexp,
     pathlabels |-> <<>>, valuelabels |-> <<>>, lowercase |-> TRUE, jmx |-> FALSE,
     collectors |-> 1,
     responses |-> << <<Ok(DocABD), Ok(DocAD), GetError>> >>]

\* path1:^r_v$/path2:^p_w$ as in the test (label names p and s)
TestPathLabels ==
    <<[name |-> <<"p">>, re |-> Regexp(TRUE, <<"r", "_", "v">>, 0, <<>>, TRUE)],
      [name |-> <<"s">>, re |-> Regexp(TRUE, <<"p", "_", "w">>, 0, <<>>, TRUE)]>>
\* p:^r_([^_])$/s:^([^_])_v$: two regexps with a capture group that match r_v
GroupPathLabels ==
    <<[name |-> <<"p">>, re |-> Regexp(TRUE, <<"r", "_">>, 1, <<>>, TRUE)],
      [name |-> <<"s">>, re |-> Regexp(TRUE, <<>>, 1, <<"_", "v">>, TRUE)]>>
\* t:^([^_])_ : the first segment of a path as a label, the rest as the name
StripPathLabels ==
    <<[name |-> <<"t">>, re |-> Regexp(TRUE, <<>>, 1, <<"_">>, FALSE)]>>
\* c:^a_b$/v:^q$/u:^z$: a number or a string, a boolean, a field no document has
ValueLabels ==
    <<[name |-> <<"c">>, re |-> Regexp(TRUE, <<"a", "_", "b">>, 0, <<>>, TRUE)],
      [name |-> <<"v">>, re |-> Regexp(TRUE, <<"q">>, 0, <<>>, TRUE)],
      [name |-> <<"u">>, re |-> Regexp(TRUE, <<"z">>, 0, <<>>, TRUE)]>>
\* w:^a_/v:^q$: a regexp that matches every field below a, and the field q
StopValueLabels ==
    <<[name |-> <<"w">>, re |-> Regexp(TRUE, <<"a", "_">>, 0, <<>>, FALSE)],
      [name |-> <<"v">>, re |-> Regexp(TRUE, <<"q">>, 0, <<>>, TRUE)]>>
\* o:^a$/c:^a_b$/d:^r$/k:^q$: regexps that match the objects a and r, a
\* field below a, and the number q
ObjectValueLabels ==
    <<[name |-> <<"o">>, re |-> Regexp(TRUE, <<"a">>, 0, <<>>, TRUE)],
      [name |-> <<"c">>, re |-> Regexp(TRUE, <<"a", "_", "b">>, 0, <<>>, TRUE)],
      [name |-> <<"d">>, re |-> Regexp(TRUE, <<"r">>, 0, <<>>, TRUE)],
      [name |-> <<"k">>, re |-> Regexp(TRUE, <<"q">>, 0, <<>>, TRUE)]>>
\* ^d_ and _
BlacklistD == Regexp(TRUE, <<"d", "_">>, 0, <<>>, FALSE)
WhitelistUnderscore == Regexp(FALSE, <<"_">>, 0, <<>>, FALSE)

Scenario(id) ==
    CASE id = "evict" -> BaseConfig
      [] id = "urls" ->
            [BaseConfig EXCEPT !.Urls = <<1, 2>>, !.interval = 0,
                !.responses = << <<Ok(DocAQ), GetError, Ok(DocTruncated)>>,
                                 <<Ok(DocQ), ReadError, Ok(DocArray), Ok(DocTrailing),
                                   Ok(DocNull)>> >>]
      [] id = "filter" ->
            [BaseConfig EXCEPT !.blacklist = BlacklistD,
                !.whitelist = WhitelistUnderscore,
                !.responses = << <<Ok(DocABD), Ok(DocAQ)>> >>]
      [] id = "black" ->
            [BaseConfig EXCEPT !.blacklist = BlacklistD,
                !.responses = << <<Ok(DocABD), Ok(DocAQ)>> >>]
      [] id = "white" ->
            [BaseConfig EXCEPT !.whitelist = WhitelistUnderscore,
                !.responses = << <<Ok(DocABD), Ok(DocAQ)>> >>]
      [] id = "path" ->
            [BaseConfig EXCEPT !.Labels = <<"l">>, !.LabelValues = <<"x">>,
                !.pathlabels = TestPathLabels,
                !.responses = << <<Ok(DocPath), Ok(DocAQ)>> >>]
      [] id = "group" ->
            [BaseConfig EXCEPT !.Labels = <<"l">>, !.LabelValues = <<"x">>,
                !.pathlabels = GroupPathLabels,
                !.responses = << <<Ok(DocPath), Ok(DocAQ)>> >>]
      [] id = "combo" ->
            [BaseConfig EXCEPT !.interval = 0,
                !.pathlabels = <<GroupPathLabels[1]>>,
                !.responses = << <<Ok(DocRM), Ok(DocRV), Ok(DocP)>> >>]
      [] id = "strip" ->
            [BaseConfig EXCEPT !.pathlabels = StripPathLabels,
                !.responses = << <<Ok(DocAQ), Ok(DocRM)>> >>]
      [] id = "embed" ->
            [BaseConfig EXCEPT !.Labels = <<"l">>, !.LabelValues = <<"x">>,
                !.responses = << <<Ok(DocEmbedded), Ok(DocABD), Ok(DocEmpty)>> >>]
      [] id = "value" ->
            [BaseConfig EXCEPT !.Urls = <<1, 2>>,
                !.Labels = <<"l">>, !.LabelValues = <<"x">>,
                !.valuelabels = ValueLabels,
                !.responses = << <<Ok(DocABD), Ok(DocStrings), GetError>>,
                                 <<Ok(DocAQ), Ok(DocTruncated)>> >>]
      [] id = "stop" ->
            [BaseConfig EXCEPT !.Urls = <<1, 2>>,
                !.valuelabels = StopValueLabels,
                !.responses = << <<Ok(DocABQ), Ok(DocQ)>>, <<Ok(DocAQ)>> >>]
      [] id = "object" ->
            [BaseConfig EXCEPT !.valuelabels = ObjectValueLabels,
                !.pathlabels = TestPathLabels,
                !.responses = << <<Ok(DocABD), Ok(DocPath)>> >>]
      [] id = "flags" ->
            [BaseConfig EXCEPT !.Labels = <<"l", ",", "m">>, !.LabelValues = <<"x">>,
                !.responses = << <<Ok(DocAQ)>> >>]
      [] id = "names" ->
            [BaseConfig EXCEPT !.Labels = <<"l">>,
                !.responses = << <<Ok(DocAQ), Ok(DocQ)>> >>]
      [] id = "values" ->
            [BaseConfig EXCEPT !.LabelValues = <<"x", ",", "y">>,
                !.responses = << <<Ok(DocAQ), Ok(DocQ)>> >>]
      [] id = "conc" ->
            [BaseConfig EXCEPT !.collectors = MaxCollectors,
                !.responses = << <<Ok(DocAQ), Ok(DocQ), Ok(DocEmpty)>> >>]

ScenarioIds ==
    {"evict", "urls", "filter", "black", "white", "path", "group", "embed", "conc", "combo", "strip",
     "value", "stop", "object", "flags", "names", "values"}
Variants == {1, 2}

(***************************************************************************)
(* State.                                                                  *)
(***************************************************************************)
VARIABLES
    cfg,          \* the scenario and the variant of this run (fixed)
    now,          \* the clock, time.Now()
    labels,       \* e.labels
    labelvalues,  \* e.labelvalues
    gauges,       \* e.gauges
    updated,      \* e.updated
    exist,        \* e.exist
    up,           \* e.up
    nextrefresh,  \* e.nextrefresh
    mutex,        \* e.mutex: 0 when free, else the caller holding it
    pc,           \* per caller of Collect: "idle", "lock", "fetch", "panicked"
    idx,          \* index in e.Urls of the URL the running pass fetches next
    reported,     \* what the last finished Collect call sent on its channel
    crashed,      \* a panic has ended the process
    last,         \* history: the last step taken
    seenPrev,     \* history: names observed in the previous executed cycle
    seenCur,      \* history: names observed in the current / last executed cycle
    obsPrev,      \* history: the label combinations observed, per name, in the
                  \* previous executed cycle
    obsCur,       \* history: the same for the current / last executed cycle
    failed,       \* history: URLs whose fetch failed in the current / last cycle
    fetched,      \* history: URLs processed in the current / last cycle
    lastObs,      \* history: the observations of the last walk
    lastRejected, \* history: the names the filter rejected in the last walk
    startup       \* the start-up: phase "main", "labels" (the constructor
                  \* collects the value labels), "serving" or "fatal"; the
                  \* index of the URL collectLabels fetches next; the pending
                  \* value-label regexps (regexMap); history: the matches,
                  \* the number of URLs fetched, the labels at the end

vars == <<cfg, startup, now, labels, labelvalues, gauges, updated, exist, up, nextrefresh,
          mutex, pc, idx, reported, crashed, last, seenPrev, seenCur, obsPrev, obsCur, failed,
          fetched, lastObs, lastRejected>>

C == [Scenario(cfg.id) EXCEPT !.variant = cfg.variant]
Procs == 1..C.collectors

\* the series a GaugeVec.Collect sends, for every vector of the map
Series(g) ==
    UNION {{[name |-> n, labels |-> g[n].labels, labelvalues |-> lv,
             value |-> g[n].vals[lv]] : lv \in DOMAIN g[n].vals} : n \in DOMAIN g}

NoStep == [kind |-> "none", p |-> 0, url |-> 0, resp |-> 0, err |-> "none",
           bad |-> FALSE, done |-> FALSE, unbalanced |-> {}, applied |-> {}]

NoStartup == [phase |-> "main", idx |-> 0, regexMap |-> <<>>, log |-> <<>>,
              fetched |-> 0, labels |-> <<>>, labelvalues |-> <<>>]

\* the process starts: nothing is constructed yet
InitConfig(ids, variants) ==
    /\ cfg \in [id : ids, variant : variants]
    /\ startup = NoStartup
    /\ now = 0
    /\ labels = <<>>
    /\ labelvalues = <<>>
    /\ gauges = EmptyMap
    /\ updated = EmptyMap
    /\ exist = EmptyMap
    /\ up = 0
    /\ nextrefresh = 0
    /\ mutex = 0
    /\ pc = [p \in Procs |-> "idle"]
    /\ idx = 0
    /\ reported = [valid |-> FALSE, executed |-> FALSE, up |-> 0, series |-> {}]
    /\ crashed = FALSE
    /\ last = NoStep
    /\ seenPrev = {}
    /\ seenCur = {}
    /\ obsPrev = {}
    /\ obsCur = {}
    /\ failed = {}
    /\ fetched = {}
    /\ lastObs = {}
    /\ lastRejected = {}

Init == InitConfig(ScenarioIds, Variants)

\* the exporter as a walk sees it
Exporter ==
    [labels |-> labels, labelvalues |-> labelvalues, gauges |-> gauges,
     updated |-> updated, exist |-> exist, panicked |-> FALSE,
     obs |-> {}, rejected |-> {}, unbalanced |-> {}, applied |-> {}]

\* main up to the struct literal of the constructor: the static labels are
\* imported (or log.Fatal ends the process), the exporter gets its labels,
\* its empty maps and nextrefresh = time.Now()
Main ==
    /\ startup.phase = "main"
    /\ IF MainLabels(C.Labels, C.LabelValues).fatal
       THEN /\ startup' = [startup EXCEPT !.phase = "fatal"]
            /\ UNCHANGED <<labels, labelvalues>>
       ELSE /\ startup' = [startup EXCEPT !.phase = "labels", !.idx = 1,
                                          !.regexMap = C.valuelabels,
                                          !.labels = MainLabels(C.Labels, C.LabelValues).labels,
                                          !.labelvalues =
                                              MainLabels(C.Labels, C.LabelValues).labelvalues]
            /\ labels' = MainLabels(C.Labels, C.LabelValues).labels
            /\ labelvalues' = MainLabels(C.Labels, C.LabelValues).labelvalues
    /\ nextrefresh' = now
    /\ last' = [NoStep EXCEPT !.kind = "main"]
    /\ UNCHANGED <<cfg, now, gauges, updated, exist, up, mutex, pc, idx, reported,
                   crashed, seenPrev, seenCur, obsPrev, obsCur, failed, fetched, lastObs, lastRejected>>

\* the rest of one iteration of the loop of collectLabels, once response j
\* has been fetched and, when walked, has left st = [e, regexMap, log]:
\* the loop ends after the last URL, or after a walk that leaves no regexp
\* pending; then the constructor returns and the exporter is served
\* a loop that ends only after the last URL
LoopEndsAfterLast(i, walked, regexMap) == i = Len(C.Urls)
\* the loop of collectLabels ends after the iteration for URL i: it was the
\* last URL, or the document was walked and no regexp is pending (break)
LoopEnds(i, walked, regexMap) ==
    i = Len(C.Urls) \/ (walked /\ Len(regexMap) = 0)

CollectLabelsDone(j, st, walked) ==
    /\ labels' = st.e.labels
    /\ labelvalues' = st.e.labelvalues
    /\ startup' = [phase |-> IF LoopEnds(startup.idx, walked, st.regexMap)
                             THEN "serving" ELSE "labels",
                   idx |-> startup.idx + 1,
                   regexMap |-> st.regexMap,
                   log |-> st.log,
                   fetched |-> startup.fetched + 1,
                   labels |-> st.e.labels,
                   labelvalues |-> st.e.labelvalues]
    /\ last' = [NoStep EXCEPT !.kind = "labels", !.url = startup.idx, !.resp = j]

\* json.Unmarshal of the body and, without an error, extractLabel("", ...):
\* the states the extraction may leave
DecodeAndExtractLabel(c, st, allJson) ==
    IF allJson.err THEN {st} ELSE extractLabel(c, st, <<>>, allJson.m)

\* one iteration of the loop of collectLabels: fetch, decode, extract
CollectLabelsFetch ==
    /\ startup.phase = "labels"
    /\ \E j \in DOMAIN C.responses[startup.idx] :
          \/ /\ C.responses[startup.idx][j].err # "none"
             /\ CollectLabelsDone(j, [e |-> Exporter, regexMap |-> startup.regexMap,
                                      log |-> startup.log], FALSE)
          \/ /\ C.responses[startup.idx][j].err = "none"
             /\ \E st \in DecodeAndExtractLabel(C,
                               [e |-> Exporter, regexMap |-> startup.regexMap,
                                log |-> startup.log],
                               Unmarshal(C.responses[startup.idx][j].body)) :
                   CollectLabelsDone(j, st,
                       ~Unmarshal(C.responses[startup.idx][j].body).err)
    /\ UNCHANGED <<cfg, now, gauges, updated, exist, up, nextrefresh, mutex, pc, idx,
                   reported, crashed, seenPrev, seenCur, obsPrev, obsCur, failed, fetched, lastObs,
                   lastRejected>>

\* time passes
Tick ==
    /\ startup.phase = "serving"
    /\ ~crashed
    /\ now < MaxTime
    /\ now' = now + 1
    /\ last' = [NoStep EXCEPT !.kind = "tick"]
    /\ UNCHANGED <<cfg, startup, labels, labelvalues, gauges, updated, exist, up, nextrefresh,
                   mutex, pc, idx, reported, crashed, seenPrev, seenCur, obsPrev, obsCur, failed,
                   fetched, lastObs, lastRejected>>

\* a collection request arrives: Collect is called and waits for the mutex
CollectCall(p) ==
    /\ startup.phase = "serving"
    /\ ~crashed
    /\ pc[p] = "idle"
    /\ pc' = [pc EXCEPT ![p] = "lock"]
    /\ last' = [NoStep EXCEPT !.kind = "call", !.p = p]
    /\ UNCHANGED <<cfg, startup, now, labels, labelvalues, gauges, updated, exist, up,
                   nextrefresh, mutex, idx, reported, crashed, seenPrev, seenCur, obsPrev, obsCur,
                   failed, fetched, lastObs, lastRejected>>

\* e.mutex.Lock() returns only when no caller holds the mutex
LockNoWait(m) == TRUE
Lock(m) == m = 0

\* e.nextrefresh.Before(time.Now())
RefreshDueOrNow(nr, t) == nr <= t
RefreshAlways(nr, t) == TRUE
RefreshDue(nr, t) == nr < t

\* Collect inside the refresh interval: lock, report, unlock
CollectSkip(p) ==
    /\ startup.phase = "serving"
    /\ ~crashed
    /\ pc[p] = "lock"
    /\ Lock(mutex)
    /\ ~RefreshDue(nextrefresh, now)
    /\ reported' = [valid |-> TRUE, executed |-> FALSE, up |-> up,
                    series |-> Series(gauges)]
    /\ pc' = [pc EXCEPT ![p] = "idle"]
    /\ last' = [NoStep EXCEPT !.kind = "skip", !.p = p, !.done = TRUE]
    /\ UNCHANGED <<cfg, startup, now, labels, labelvalues, gauges, updated, exist, up,
                   nextrefresh, mutex, idx, crashed, seenPrev, seenCur, obsPrev, obsCur, failed,
                   fetched, lastObs, lastRejected>>

\* the loop over e.updated at the start of a cycle: a name whose count of
\* the last cycle is below the one before it is deleted from the three
\* maps, any other gets the count as its new baseline and a zero counter
BeginCycleKeepSeries(g, u, x) ==
    LET keep == {name \in DOMAIN u : ~(u[name] < x[name])} IN
    [gauges |-> g,
     updated |-> [name \in keep |-> 0],
     exist |-> [name \in keep |-> u[name]]]
BeginCycleKeepAll(g, u, x) ==
    [gauges |-> g,
     updated |-> [name \in DOMAIN u |-> 0],
     exist |-> u]
BeginCycleNotIncreased(g, u, x) ==
    LET keep == {name \in DOMAIN u : ~(u[name] <= x[name])} IN
    [gauges |-> [name \in keep |-> g[name]],
     updated |-> [name \in keep |-> 0],
     exist |-> [name \in keep |-> u[name]]]
BeginCycle(g, u, x) ==
    LET keep == {name \in DOMAIN u : ~(u[name] < x[name])} IN
    [gauges |-> [name \in keep |-> g[name]],
     updated |-> [name \in keep |-> 0],
     exist |-> [name \in keep |-> u[name]]]

\* Collect when the refresh is due: lock and start the cycle
CollectBegin(p) ==
    /\ startup.phase = "serving"
    /\ ~crashed
    /\ pc[p] = "lock"
    /\ Lock(mutex)
    /\ RefreshDue(nextrefresh, now)
    /\ mutex' = p
    /\ gauges' = BeginCycle(gauges, updated, exist).gauges
    /\ updated' = BeginCycle(gauges, updated, exist).updated
    /\ exist' = BeginCycle(gauges, updated, exist).exist
    /\ idx' = 1
    /\ pc' = [pc EXCEPT ![p] = "fetch"]
    /\ seenPrev' = seenCur
    /\ seenCur' = {}
    /\ obsPrev' = obsCur
    /\ obsCur' = {}
    /\ failed' = {}
    /\ fetched' = {}
    /\ lastObs' = {}
    /\ lastRejected' = {}
    /\ last' = [NoStep EXCEPT !.kind = "begin", !.p = p]
    /\ UNCHANGED <<cfg, startup, now, labels, labelvalues, up, nextrefresh, reported, crashed>>

\* e.up.Set(0) after a failed client.Get or ioutil.ReadAll, e.up.Set(1)
\* after a response was read
UpAfterFetchOne(err) == 1
UpAfterFetch(err) == IF err = "none" THEN 1 ELSE 0

\* time.Now().Add(e.interval)
NextRefreshNow(t, interval) == t
NextRefresh(t, interval) == t + interval

\* the rest of one iteration of the loop over e.Urls, once response j has
\* been fetched, decoded and walked into e: after the last URL the next
\* refresh is scheduled, the series are reported and the mutex is released.
\* A panic in the walk runs the deferred calls (up is sent, the mutex
\* released) and ends the process.
FetchDone(p, j, e, err, bad) ==
    /\ up' = UpAfterFetch(err)
    /\ labels' = e.labels
    /\ labelvalues' = e.labelvalues
    /\ gauges' = e.gauges
    /\ updated' = e.updated
    /\ exist' = e.exist
    /\ lastObs' = e.obs
    /\ lastRejected' = e.rejected
    /\ seenCur' = seenCur \cup {o.name : o \in e.obs}
    /\ obsCur' = obsCur \cup {[name |-> o.name, labelvalues |-> o.labelvalues] :
                                 o \in e.obs}
    /\ failed' = IF err = "none" THEN failed ELSE failed \cup {idx}
    /\ fetched' = fetched \cup {idx}
    /\ last' = [kind |-> "fetch", p |-> p, url |-> idx, resp |-> j, err |-> err,
                bad |-> bad, done |-> (idx = Len(C.Urls) /\ ~e.panicked),
                unbalanced |-> e.unbalanced, applied |-> e.applied]
    /\ IF e.panicked
       THEN /\ crashed' = TRUE
            /\ reported' = [valid |-> TRUE, executed |-> TRUE,
                            up |-> UpAfterFetch(err), series |-> {}]
            /\ mutex' = 0
            /\ pc' = [pc EXCEPT ![p] = "panicked"]
            /\ UNCHANGED <<idx, nextrefresh>>
       ELSE IF idx = Len(C.Urls)
       THEN /\ nextrefresh' = NextRefresh(now, C.interval)
            /\ reported' = [valid |-> TRUE, executed |-> TRUE,
                            up |-> UpAfterFetch(err), series |-> Series(e.gauges)]
            /\ mutex' = 0
            /\ pc' = [pc EXCEPT ![p] = "idle"]
            /\ idx' = 0
            /\ UNCHANGED crashed
       ELSE /\ idx' = idx + 1
            /\ UNCHANGED <<nextrefresh, reported, mutex, pc, crashed>>

\* json.Unmarshal and a walk that leaves out the fields the start-up has
\* consumed as value labels (label extraction and metric emission sharing
\* one pass)
DecodeAndWalkConsumed(c, e, allStats) ==
    IF allStats.err THEN {e}
    ELSE {[w EXCEPT !.obs = {o \in @ : \A i \in DOMAIN startup.log :
                                           startup.log[i].name # o.name}] :
             w \in Walk(c, e, allStats.m)}

\* json.Unmarshal of the body and, without an error, the walk: the states
\* the call may leave the exporter in
DecodeAndWalk(c, e, allStats) ==
    IF allStats.err THEN {e} ELSE Walk(c, e, allStats.m)

\* one iteration of the loop over e.Urls: fetch, decode and walk
CollectFetch(p) ==
    /\ startup.phase = "serving"
    /\ ~crashed
    /\ pc[p] = "fetch"
    /\ \E j \in DOMAIN C.responses[idx] :
          \/ /\ C.responses[idx][j].err # "none"
             /\ FetchDone(p, j, Exporter, C.responses[idx][j].err, FALSE)
          \/ /\ C.responses[idx][j].err = "none"
             /\ \E e \in DecodeAndWalk(C, Exporter,
                                        Unmarshal(C.responses[idx][j].body)) :
                   FetchDone(p, j, e, "none", Unmarshal(C.responses[idx][j].body).err)
    /\ UNCHANGED <<cfg, startup, now, seenPrev, obsPrev>>

Next ==
    \/ Main
    \/ CollectLabelsFetch
    \/ Tick
    \/ \E p \in Procs : CollectCall(p)
    \/ \E p \in Procs : CollectSkip(p)
    \/ \E p \in Procs : CollectBegin(p)
    \/ \E p \in Procs : CollectFetch(p)

Spec == Init /\ [][Next]_vars
(***************************************************************************)
(* Properties.                                                             *)
(***************************************************************************)
\* the names of the series a Collect call reported
ReportedNames == {s.name : s \in reported.series}
\* the step taken is one iteration of the loop over the URLs
FetchStep == last'.kind = "fetch"
\* the body of the response served in the step taken
FetchedBody == C.responses[idx][last'.resp].body

\* C1: every metric name observed in an executed cycle and observed by no
\* document of the next executed cycle is absent from the series reported
\* when that next cycle completes.
C1_Eviction ==
    (last.kind = "fetch" /\ last.done) =>
        \A M \in seenPrev \ seenCur : M \notin ReportedNames

\* C2: a Collect call that gets the mutex while the next-refresh time has
\* not elapsed fetches nothing, walks nothing, leaves the series map, the
\* generation counters, the up gauge, the label set and the next-refresh
\* time unchanged, and reports the series the preceding call reported.
C2_Idempotent ==
    [][\A p \in Procs :
          (pc[p] = "lock" /\ pc'[p] # "lock" /\ nextrefresh >= now) =>
              /\ UNCHANGED <<gauges, updated, exist, up, labels, labelvalues,
                             nextrefresh, idx, fetched, lastObs>>
              /\ reported'.valid /\ ~reported'.executed
              /\ reported'.series = Series(gauges)
              /\ reported'.up = up
              /\ reported.valid => reported'.series = reported.series]_vars
C2_Witness ==
    /\ last.kind = "skip"
    /\ reported.valid /\ ~reported.executed
    /\ reported.series # {}

\* C3: every observation carries exactly the labels active at the start of
\* the walk followed by the labels derived at its ancestors: a derived label
\* is on every metric of its subtree and on none outside it.
C3_LabelScoping ==
    \A o \in lastObs : o.labels = o.el /\ o.labelvalues = o.ev

\* C4: when an executed cycle completes, up is 1 if the fetch of every URL
\* succeeded in the cycle and 0 if the fetch of any URL failed.
C4_UpAllUrls ==
    (last.kind = "fetch" /\ last.done) =>
        /\ up = (IF failed = {} THEN 1 ELSE 0)
        /\ reported.up = (IF failed = {} THEN 1 ELSE 0)

\* names the filter is asked about
FilterNames ==
    {<<"a", "_", "b">>, <<"a", "_", "c">>, <<"d", "_", "0">>, <<"d", "_", "1">>,
     <<"d">>, <<"q">>, <<"_">>, <<>>}
\* the filter as the documentation states it
Blacklisted(name) == ~C.blacklist.nil /\ MatchString(C.blacklist, name)
NotWhitelisted(name) == ~C.whitelist.nil /\ ~MatchString(C.whitelist, name)
FilterAccepts(name) ==
    IF Blacklisted(name) THEN FALSE
    ELSE IF NotWhitelisted(name) THEN FALSE
    ELSE TRUE

\* C5: matchMetric(name) is false when a blacklist is configured and matches,
\* otherwise false when a whitelist is configured and does not match,
\* otherwise true; a name matching both lists is rejected, and with neither
\* list every name is accepted.  The names a walk offered to the filter were
\* accepted or rejected accordingly.
C5_NameFilter ==
    /\ \A name \in FilterNames :
          /\ matchMetric(C, name) = FilterAccepts(name)
          /\ (Blacklisted(name) /\ ~NotWhitelisted(name)) => ~matchMetric(C, name)
          /\ (C.blacklist.nil /\ C.whitelist.nil) => matchMetric(C, name)
    /\ \A name \in lastRejected : ~FilterAccepts(name)
    /\ \A o \in lastObs : FilterAccepts(o.name)
C5_Witness ==
    /\ ~C.blacklist.nil /\ ~C.whitelist.nil
    /\ \E name \in lastRejected :
          MatchString(C.blacklist, name) /\ MatchString(C.whitelist, name)
    /\ lastObs # {}

\* addGauge on the current exporter leaves the three maps as they are
AddGaugeChangesNothing(name) ==
    /\ addGauge(C, Exporter, name, 7, [el |-> labels, ev |-> labelvalues]).gauges
          = gauges
    /\ addGauge(C, Exporter, name, 7, [el |-> labels, ev |-> labelvalues]).updated
          = updated
    /\ addGauge(C, Exporter, name, 7, [el |-> labels, ev |-> labelvalues]).exist
          = exist

\* C6: no name in the series map, in the generation counters or among the
\* reported series matches the blacklist, every one matches the whitelist
\* when one is configured, and a rejected observation changes neither the
\* series map nor the generation counters.
C6_FilteredSeries ==
    /\ \A name \in DOMAIN gauges \cup DOMAIN updated \cup DOMAIN exist \cup ReportedNames :
          ~Blacklisted(name) /\ ~NotWhitelisted(name)
    /\ \A name \in FilterNames :
          (Blacklisted(name) \/ NotWhitelisted(name)) => AddGaugeChangesNothing(name)
C6_Witness ==
    /\ ~C.blacklist.nil
    /\ \E name \in lastRejected : MatchString(C.blacklist, name)
    /\ DOMAIN gauges # {}
    /\ reported.series # {}

\* a decoded value: the text of an object
IsObjectText(content) ==
    /\ ParseValue(content, 1).ok
    /\ ParseValue(content, 1).val.t = "obj"
    /\ SkipWs(content, ParseValue(content, 1).next) > Len(content)
\* the decoded value v with every string that holds a JSON object replaced
\* by that object as a native value: every such string (any), or only those
\* whose first character is '{'
RECURSIVE NativeValue(_, _)
NativeValue(v, any) ==
    CASE v.t = "obj" ->
            [t |-> "obj",
             v |-> [i \in DOMAIN v.v |->
                       [k |-> v.v[i].k, v |-> NativeValue(v.v[i].v, any)]]]
      [] v.t = "arr" ->
            [t |-> "arr", v |-> [i \in DOMAIN v.v |-> NativeValue(v.v[i], any)]]
      [] v.t = "str" ->
            IF Len(v.v) > 0 /\ (any \/ FirstByte(v.v) = "{") /\ IsObjectText(v.v)
            THEN NativeValue(ParseValue(v.v, 1).val, any)
            ELSE v
      [] OTHER -> v
\* the document decoded from a body, with its embedded objects made native
NativeDoc(body, any) ==
    NativeValue([t |-> "obj", v |-> Unmarshal(body).m], any).v
\* the step taken has walked a document
WalkStep == FetchStep /\ last'.err = "none" /\ ~last'.bad

\* C7 as stated: the walk of a document makes the observations that the walk
\* of the same document makes once every string holding a valid JSON object
\* is a native nested value.
C7_EmbeddedAnyObject ==
    [][WalkStep =>
          lastObs' \in {w.obs : w \in Walk(C, Exporter, NativeDoc(FetchedBody, TRUE))}]_vars

\* C7, amended: the walk of a document makes the observations (names, label
\* sets, values) that the walk of the same document makes once every string
\* that starts with '{' and holds a valid JSON object is a native nested
\* value at the same path: whatever the iteration orders, the observations
\* made are observations the walk of that document can make, and the two
\* documents have the same possible walks.
C7_EmbeddedBrace ==
    [][WalkStep =>
          \A N \in {{w.obs : w \in Walk(C, Exporter, NativeDoc(FetchedBody, FALSE))}} :
              /\ lastObs' \in N
              /\ N = {w.obs : w \in Walk(C, Exporter, Unmarshal(FetchedBody).m)}]_vars
C7_Witness ==
    /\ cfg.id = "embed"
    /\ last.kind = "fetch" /\ last.resp = 1
    /\ \E o \in lastObs : o.name = <<"a", "_", "b">> /\ o.value = 5
    /\ \E o \in lastObs : o.name = <<"d", "_", "0", "_", "e">> /\ o.value = 1
    /\ \A o \in lastObs : o.value # 7

\* C8: a failed fetch sets up to 0, keeps the series map and the generation
\* counters as the earlier URLs of the cycle left them, and goes on with
\* the next URL; a completed cycle has processed every configured URL.
C8_TransportFailure ==
    /\ [](last.kind = "fetch" /\ last.done => fetched = DOMAIN C.Urls)
    /\ [][(FetchStep /\ last'.err # "none") =>
            /\ up' = 0
            /\ UNCHANGED <<gauges, updated, exist, labels, labelvalues>>
            /\ ~crashed'
            /\ fetched' = fetched \cup {idx}
            /\ IF idx < Len(C.Urls)
               THEN idx' = idx + 1 /\ pc' = pc /\ mutex' = mutex
               ELSE last'.done /\ reported'.series = Series(gauges)]_vars
C8_Witness ==
    /\ last.kind = "fetch" /\ last.done
    /\ failed = {1}
    /\ fetched = {1, 2}
    /\ lastObs # {}
    /\ up = 1

\* bodies that are not a JSON object
NotObjects == {DocTruncated, DocArray, DocTrailing, DocNull}

\* C9: a fetched body that is not a valid top-level JSON object adds no
\* observation and changes neither the series map nor the generation
\* counters, up is 1, and the cycle goes on with the next URL.
C9_InvalidBody ==
    [][(FetchStep /\ last'.err = "none"
            /\ (FetchedBody \in NotObjects \/ ~IsObjectText(FetchedBody))) =>
          /\ up' = 1
          /\ UNCHANGED <<gauges, updated, exist, labels, labelvalues>>
          /\ lastObs' = {}
          /\ ~crashed'
          /\ fetched' = fetched \cup {idx}
          /\ IF idx < Len(C.Urls)
             THEN idx' = idx + 1 /\ pc' = pc /\ mutex' = mutex
             ELSE last'.done /\ reported'.series = Series(gauges)]_vars
C9_Witness ==
    /\ last.kind = "fetch" /\ last.bad /\ last.url = 1
    /\ pc[last.p] = "fetch" /\ idx = 2
    /\ up = 1
    /\ DOMAIN gauges # {}

\* C10: at most one Collect call is past the lock, it holds the mutex, a
\* call waiting for the mutex stays there while another is in progress, and
\* while a call is in progress every change of the label set, the series
\* map, the generation counters and the next-refresh time is a step of that
\* call.
C10_MutualExclusion ==
    /\ [](/\ Cardinality({p \in Procs : pc[p] = "fetch"}) <= 1
          /\ \A p \in Procs : pc[p] = "fetch" => mutex = p)
    /\ [][\A q \in Procs : pc[q] = "fetch" =>
            /\ \A p \in Procs \ {q} : pc[p] = "lock" => pc'[p] = "lock"
            /\ (~UNCHANGED <<labels, labelvalues, gauges, updated, exist, nextrefresh>>)
                  => last'.p = q /\ last'.kind = "fetch"]_vars
C10_Witness ==
    /\ pc[1] = "fetch"
    /\ 2 \in Procs /\ pc[2] = "lock"
    /\ idx = 1 /\ mutex = 1

\* C11: at every node the walk visits, as many labels are popped after the
\* subtree as were pushed at the node: the label stack after the node is
\* the label stack before it.
C11_PushPopSymmetry ==
    [][WalkStep => last'.unbalanced = {}]_vars
\* a is a prefix of b
IsPrefix(a, b) == Len(a) <= Len(b) /\ SubSeq(b, 1, Len(a)) = a
\* the static labels main imported
StaticLabels == MainLabels(C.Labels, C.LabelValues)

\* C12: the label set the constructor left is the static labels followed by
\* the value labels; once the exporter is served every observation carries
\* it as a prefix, with the values it had, and every collection pass starts
\* with the label set equal to it.
C12_BaseLabels ==
    (startup.phase = "serving" /\ ~crashed) =>
        /\ IsPrefix(StaticLabels.labels, startup.labels)
        /\ IsPrefix(StaticLabels.labelvalues, startup.labelvalues)
        /\ \A o \in lastObs :
              IsPrefix(startup.labels, o.labels)
                  /\ IsPrefix(startup.labelvalues, o.labelvalues)
        /\ (\A p \in Procs : pc[p] # "fetch") =>
              labels = startup.labels /\ labelvalues = startup.labelvalues
\* the label names the matches of the start-up have consumed, and the names
\* and values the start-up has added after the static labels
LoggedLabels == {startup.log[i].label : i \in DOMAIN startup.log}
ValueLabelNames ==
    SubSeq(startup.labels, Len(StaticLabels.labels) + 1, Len(startup.labels))
\* the step taken is an iteration of the loop of collectLabels
LabelsStep == last'.kind = "labels"

\* C13: every configured value label is matched at most once and gets at
\* most one value, also when its regexp matches several fields of one
\* document or fields of several URLs; a matched label is no longer pending;
\* a later URL never changes what an earlier one added; with no label
\* pending nothing is extracted; a walk that leaves no label pending ends
\* the extraction, so that no URL is fetched once every label has matched.
C13_OneShot ==
    /\ [](startup.phase \in {"labels", "serving"} =>
            /\ \A i, j \in DOMAIN startup.log :
                  i # j => startup.log[i].label # startup.log[j].label
            /\ \A i, j \in DOMAIN ValueLabelNames :
                  i # j => ValueLabelNames[i] # ValueLabelNames[j]
            /\ Len(ValueLabelNames) <= Len(startup.log)
            /\ {pl.name : pl \in {startup.regexMap[i] : i \in DOMAIN startup.regexMap}}
                  = {pl.name : pl \in {C.valuelabels[i] : i \in DOMAIN C.valuelabels}}
                        \ LoggedLabels
            /\ (startup.phase = "serving" /\ Len(startup.regexMap) > 0)
                  => startup.fetched = Len(C.Urls))
    /\ [][LabelsStep =>
            /\ IsPrefix(startup.log, startup'.log)
            /\ IsPrefix(labels, labels') /\ IsPrefix(labelvalues, labelvalues')
            /\ Len(startup.regexMap) = 0 => UNCHANGED <<labels, labelvalues>>
            /\ (Len(startup'.regexMap) = 0 /\ startup'.log # startup.log)
                  => startup'.phase = "serving"
            /\ startup.log # <<>> => Len(startup.regexMap) > 0]_vars
\* {"a":{"b":5,"c":"hi"},"q":true} at the first of two URLs with w:^a_ and
\* v:^q$: a.c is visited before a.b and gives w its only value, q gives v,
\* and the second URL, whose a.b matches w as well, is never fetched
C13_Witness ==
    /\ cfg.id = "stop"
    /\ startup.phase = "serving"
    /\ Len(C.Urls) = 2 /\ startup.fetched = 1
    /\ Len(startup.regexMap) = 0
    /\ Len(startup.log) = 2
    /\ \E i \in DOMAIN startup.log :
          startup.log[i].label = <<"w">> /\ startup.log[i].name = <<"a", "_", "c">>
    /\ Len(ValueLabelNames) = 2
\* the values the start-up has added after the static labels
ValueLabelValues ==
    SubSeq(startup.labelvalues, Len(StaticLabels.labels) + 1, Len(startup.labelvalues))

\* C14: once the constructor has returned, the value-label extraction is
\* never run again (nothing is matched, fetched or left pending differently)
\* and the label set keeps the value labels the constructor added, with
\* their values, whatever Collect calls are made.
C14_ValueLabelsFixed ==
    /\ [][startup.phase = "serving" => startup' = startup]_vars
    /\ []((startup.phase = "serving" /\ ~crashed /\ Len(ValueLabelNames) > 0) =>
            /\ Len(labels) >= Len(startup.labels)
            /\ SubSeq(labels, Len(StaticLabels.labels) + 1, Len(startup.labels))
                  = ValueLabelNames
            /\ SubSeq(labelvalues, Len(StaticLabels.labels) + 1, Len(startup.labels))
                  = ValueLabelValues)
\* the matches of the start-up on a string, a number or a boolean
ScalarLog == SelectSeq(startup.log, LAMBDA en : en.t \in {"str", "num", "bool"})
\* the text the documentation gives a matched value
LabelText(v) ==
    CASE v.t = "str" -> GoString(v.v)
      [] v.t = "num" -> Itoa(v.v)
      [] v.t = "bool" -> IF v.v THEN <<"t", "r", "u", "e">>
                         ELSE <<"f", "a", "l", "s", "e">>

\* C15: the value of an extracted value label is the text of a matched
\* string verbatim, the plain decimal text of a matched whole number (5
\* gives "5") and "true" or "false" for a matched boolean.
C15_Stringification ==
    startup.phase \in {"labels", "serving"} =>
        /\ Len(ValueLabelValues) = Len(ScalarLog)
        /\ \A i \in DOMAIN ScalarLog : ValueLabelValues[i] = LabelText(ScalarLog[i].v)
\* the numeric and boolean leaves of a decoded value: the keys and the
\* zero-based decimal array indices on the path of each, joined with '_',
\* and the number, or 1 for true and 0 for false
LeafName(path, k) == IF Len(path) = 0 THEN k ELSE path \o <<"_">> \o k
RECURSIVE Leaves(_, _)
Leaves(v, path) ==
    CASE v.t = "num" -> {[raw |-> path, value |-> v.v]}
      [] v.t = "bool" -> {[raw |-> path, value |-> IF v.v THEN 1 ELSE 0]}
      [] v.t = "obj" ->
            UNION {Leaves(x.v, x.p) :
                      x \in {[p |-> LeafName(path, v.v[i].k), v |-> v.v[i].v] :
                                i \in DOMAIN v.v}}
      [] v.t = "arr" ->
            UNION {Leaves(x.v, x.p) :
                      x \in {[p |-> LeafName(path, Itoa(i - 1)), v |-> v.v[i]] :
                                i \in DOMAIN v.v}}
      [] OTHER -> {}
\* the leaves of the document fetched in the step taken, embedded objects
\* included
StepLeaves ==
    UNION {Leaves(d, <<>>) :
              d \in {NativeValue([t |-> "obj", v |-> Unmarshal(FetchedBody).m], FALSE)}}
\* the name a leaf is exported under when metric names are lowercased
\* (the default of the second generation)
ExportedName(raw) == IF C.variant = 2 /\ C.lowercase THEN ToLower(raw) ELSE raw
\* no path labels and no filters are configured
PlainConfig == Len(C.pathlabels) = 0 /\ C.blacklist.nil /\ C.whitelist.nil
\* the count of a name before the step taken
CountBefore(name) == IF name \in DOMAIN updated THEN updated[name] ELSE 0

\* the observations and the counts after the step taken are those of one
\* observation per leaf, each leaf under the name it is given here
OnePerLeaf(leaves) ==
    /\ {[name |-> o.name, value |-> o.value] : o \in lastObs'}
          = {[name |-> l.name, value |-> l.value] : l \in leaves}
    /\ \A name \in DOMAIN updated' :
          updated'[name]
              = CountBefore(name) + Cardinality({l \in leaves : l.name = name})

\* C16: a walk by extractJson / extractJsonArray (the first generation) of a
\* document, with no path labels and no filters, makes exactly one
\* observation per numeric or boolean leaf, named by the keys and the
\* zero-based decimal indices on its path joined with '_', with the number,
\* 1 for true or 0 for false as value, and none for a string that holds no
\* object or for null.
C16_WalkerDispatchRaw ==
    [][(WalkStep /\ PlainConfig /\ C.variant = 1) =>
          \A leaves \in {{[name |-> l.raw, value |-> l.value, raw |-> l.raw] :
                              l \in StepLeaves}} : OnePerLeaf(leaves)]_vars

\* the node reached from a node with working name `name` and labels ls = vs
\* through the key or index k: when a path-label regexp matches the joined
\* name, the working name is the label name and the label, with value k, is
\* added; else the working name is the joined name
LabelledNode(name, ls, vs, k, v, label) ==
    IF label # <<>>
    THEN [k |-> k, name |-> label, ls |-> Append(ls, label), vs |-> Append(vs, k),
          v |-> v]
    ELSE [k |-> k, name |-> LeafName(name, k), ls |-> ls, vs |-> vs, v |-> v]
\* the numeric and boolean leaves of a decoded value with the name and the
\* labels the path labels give each: one set of leaves for every choice, at
\* the nodes that several regexps match, of the regexp that is applied
RECURSIVE LabelledLeaves(_, _, _, _), LabelledChildren(_, _, _, _)
LabelledLeaves(v, name, ls, vs) ==
    CASE v.t = "num" ->
            {{[name |-> name, labels |-> ls, labelvalues |-> vs, value |-> v.v]}}
      [] v.t = "bool" ->
            {{[name |-> name, labels |-> ls, labelvalues |-> vs,
               value |-> IF v.v THEN 1 ELSE 0]}}
      [] v.t = "obj" -> LabelledChildren(v.v, name, ls, vs)
      [] v.t = "arr" ->
            LabelledChildren([i \in DOMAIN v.v |-> [k |-> Itoa(i - 1), v |-> v.v[i]]],
                             name, ls, vs)
      [] OTHER -> {{}}
LabelledChildren(entries, name, ls, vs) ==
    IF Len(entries) = 0 THEN {{}}
    ELSE {a \cup b :
             a \in UNION {LabelledLeaves(x.v, x.name, x.ls, x.vs) :
                             x \in {LabelledNode(name, ls, vs, Head(entries).k,
                                                 Head(entries).v, label) :
                                       label \in matchLabel(
                                                     LeafName(name, Head(entries).k),
                                                     C.pathlabels)}},
             b \in LabelledChildren(Tail(entries), name, ls, vs)}
\* the sets of labelled leaves of the document fetched in the step taken,
\* below the labels the exporter holds
StepLabelledLeaves ==
    UNION {LabelledLeaves(d, <<>>, labels, labelvalues) :
              d \in {NativeValue([t |-> "obj", v |-> Unmarshal(FetchedBody).m], FALSE)}}

\* C17: in the first generation (extractJson / extractJsonArray), without
\* filters, the walk of a document observes every numeric or boolean leaf
\* under the name and the labels that the path labels give it: at a node whose
\* joined name matches a path-label regexp the working name becomes the label
\* name, the label takes the node's key or index as its value for the subtree,
\* and deeper regexps are matched against the rewritten name (where several
\* regexps match a node, any one of them is the one applied).  A walk that a
\* fault ends has observed some of these leaves, under the same names and
\* labels.
C17_PathLabels ==
    [][(WalkStep /\ C.variant = 1 /\ C.blacklist.nil /\ C.whitelist.nil) =>
          \A O \in {{[name |-> o.name, labels |-> o.labels,
                       labelvalues |-> o.labelvalues, value |-> o.value] :
                         o \in lastObs'}} :
              \E L \in StepLabelledLeaves :
                  /\ O \subseteq L
                  /\ ~crashed' => O = L]_vars
\* the document {"r":{"m":4,"v":{"n":2,"w":{"k":3}}},"q":5} walked with
\* l=x and p:^r_v$/s:^p_w$: the leaf r.v.w.k is s_k with l=x, p=v, s=w
C17_Witness ==
    /\ cfg.id = "path" /\ cfg.variant = 1
    /\ last.kind = "fetch" /\ last.resp = 1
    /\ \E o \in lastObs :
          /\ o.name = <<"s", "_", "k">> /\ o.value = 3
          /\ o.labels = <<<<"l">>, <<"p">>, <<"s">>>>
          /\ o.labelvalues = <<<<"x">>, <<"v">>, <<"w">>>>
    /\ \E o \in lastObs :
          /\ o.name = <<"p", "_", "n">> /\ o.value = 2
          /\ o.labels = <<<<"l">>, <<"p">>>>
          /\ o.labelvalues = <<<<"x">>, <<"v">>>>
    /\ \E o \in lastObs :
          /\ o.name = <<"r", "_", "m">> /\ o.labels = <<<<"l">>>>

\* the number of entries of a comma-separated list given as a flag: none for
\* the empty flag
ListLen(flag) == IF Len(flag) = 0 THEN 0 ELSE Len(Split(flag))

\* C18: when the list of static label names and the list of static label
\* values have different lengths (one of them empty and the other not
\* included), main ends the process: the exporter is never constructed and
\* nothing is served.
C18_UnequalListsFatal ==
    (ListLen(C.Labels) # ListLen(C.LabelValues) /\ startup.phase # "main")
        => startup.phase = "fatal"

BeginStep == \E p \in Procs : pc[p] = "lock" /\ pc'[p] = "fetch"
\* the name is in none of the three maps after the step
Deleted(name) ==
    /\ name \notin DOMAIN gauges'
    /\ name \notin DOMAIN updated'
    /\ name \notin DOMAIN exist'
\* the series of the name is kept by the step, its count is the new baseline
\* and its live counter is 0
CarriedForward(name) ==
    /\ name \in DOMAIN gauges' /\ gauges'[name] = gauges[name]
    /\ name \in DOMAIN exist' /\ exist'[name] = updated[name]
    /\ name \in DOMAIN updated' /\ updated'[name] = 0

\* C20 as stated: at the start of a cycle every known name whose count of
\* the previous cycle did not increase over the count of the cycle before it
\* is deleted with both counters, and every other name is carried forward.
C20_NotIncreasedDeleted ==
    [][BeginStep =>
          \A name \in DOMAIN updated :
              IF updated[name] <= exist[name] THEN Deleted(name)
              ELSE CarriedForward(name)]_vars

\* C20, amended: at the start of a cycle every known name whose count of the
\* previous cycle is strictly lower than the count of the cycle before it is
\* deleted with both counters; every other name, one with an equal count
\* included, keeps its series, gets the latest count as its new baseline and
\* a live counter of 0; no other name is known afterwards.
C20_BeginCycle ==
    [][BeginStep =>
          /\ \A name \in DOMAIN updated :
                IF updated[name] < exist[name] THEN Deleted(name)
                ELSE CarriedForward(name)
          /\ DOMAIN gauges' \subseteq DOMAIN updated
          /\ DOMAIN updated' = DOMAIN gauges' /\ DOMAIN exist' = DOMAIN gauges']_vars
\* a cycle has just started: a series the preceding call reported is deleted,
\* and a series observed as often as in the cycle before is carried forward
C20_Witness ==
    /\ \E p \in Procs : pc[p] = "fetch"
    /\ idx = 1 /\ fetched = {}
    /\ \E name \in ReportedNames : name \notin DOMAIN gauges
    /\ \E name \in DOMAIN gauges :
          /\ updated[name] = 0 /\ exist[name] >= 1
          /\ name \in seenPrev

\* C21: a name observed in no cycle from cycle N+1 on is absent from the
\* series map from the start of cycle N+2 on and stays absent until it is
\* observed again.  At the start of a cycle seenCur holds the names observed
\* in the cycle before it: the start leaves no other name in the series map,
\* and any step that adds a name to the series map has observed it.
C21_EventualEviction ==
    [][/\ BeginStep => DOMAIN gauges' \subseteq seenCur
       /\ \A name \in DOMAIN gauges' \ DOMAIN gauges :
             FetchStep /\ name \in {o.name : o \in lastObs'}]_vars
\* a cycle has just started, and a name that the preceding call reported but
\* the preceding cycle did not observe is gone from the series map
C21_Witness ==
    /\ last.kind = "begin"
    /\ \E name \in ReportedNames : name \notin seenPrev /\ name \notin DOMAIN gauges

\* C22: a name observed at least once in every executed cycle is never
\* removed from the series map, whatever its number of observations in each
\* cycle: the start of a cycle removes no name that the cycle before it
\* observed.
C22_ObservedNeverRemoved ==
    [][BeginStep =>
          \A name \in seenCur \cap DOMAIN gauges : name \in DOMAIN gauges']_vars

\* C23: after an executed cycle completes, every label combination held by a
\* series of the series map was observed in that cycle or in the executed
\* cycle before it.
C23_StaleCombination ==
    (last.kind = "fetch" /\ last.done) =>
        \A name \in DOMAIN gauges :
            \A lv \in DOMAIN gauges[name].vals :
                [name |-> name, labelvalues |-> lv] \in obsCur \cup obsPrev

\* C24: every observation passes as many label values as the series of its
\* name was created with label names, under the same label names in the same
\* order: setting a value never faults on a label-count mismatch, and no
\* value is stored under another label's name.
C24_LabelArity ==
    /\ ~crashed
    /\ \A o \in lastObs :
          o.name \in DOMAIN gauges =>
              /\ Len(o.labelvalues) = Len(gauges[o.name].labels)
              /\ o.labels = gauges[o.name].labels

\* a list of label names and the list of their values as a set of pairs
LabelSet(ls, vs) == {<<ls[i], vs[i]>> : i \in DOMAIN ls \cap DOMAIN vs}
\* the metrics the walks of the fetched document make from the state before
\* the step, one outcome for each choice of iteration orders: the names,
\* each with its set of labels, and whether the walk ended in a fault
WalkOutcome ==
    {[series |-> {[name |-> o.name, labels |-> LabelSet(o.labels, o.labelvalues)] :
                     o \in w.obs},
      panicked |-> w.panicked] : w \in Walk(C, Exporter, Unmarshal(FetchedBody).m)}
\* the labels after the extraction of the value labels from the document
\* fetched at start-up, one outcome for each choice of iteration orders
LabelsOutcome ==
    {LabelSet(st.e.labels, st.e.labelvalues) :
        st \in DecodeAndExtractLabel(C,
                   [e |-> Exporter, regexMap |-> startup.regexMap,
                    log |-> startup.log],
                   Unmarshal(C.responses[startup.idx][last'.resp].body))}

\* C25: the iteration order of object fields and of the configured label
\* regexps does not change the outcome: from the same state and the same
\* document every order gives the same metric names with the same label
\* names and values, and the same value labels.
C25_OrderIndependent ==
    [][/\ WalkStep => \A a, b \in WalkOutcome : a = b
       /\ (LabelsStep /\ last'.err = "none") => \A a, b \in LabelsOutcome : a = b]_vars

\* a string is embedded JSON: it starts with '{' and decodes to an object
IsEmbedded(content) ==
    Len(content) > 0 /\ FirstByte(content) = "{" /\ ~Unmarshal(content).err
\* the decoded value v with every string that is not embedded JSON (the
\* empty string and a string that starts with '{' but fails to parse
\* included) replaced by null, which the walkers ignore
RECURSIVE SkipStrings(_)
SkipStrings(v) ==
    CASE v.t = "obj" ->
            [t |-> "obj",
             v |-> [i \in DOMAIN v.v |-> [k |-> v.v[i].k, v |-> SkipStrings(v.v[i].v)]]]
      [] v.t = "arr" ->
            [t |-> "arr", v |-> [i \in DOMAIN v.v |-> SkipStrings(v.v[i])]]
      [] v.t = "str" -> IF IsEmbedded(v.v) THEN v ELSE [t |-> "null", v |-> 0]
      [] OTHER -> v
\* the walks of the fetched document without those strings, from the state
\* before the step taken
StepWalkSkipped ==
    Walk(C, Exporter, SkipStrings([t |-> "obj", v |-> Unmarshal(FetchedBody).m]).v)

\* C26: a string that is not embedded JSON, the empty string included, and
\* a string that starts with '{' but fails to parse, are skipped: the walk
\* makes the observations, and ends the way, it would without those strings.
C26_StringsSkipped ==
    [][WalkStep =>
          \E w \in StepWalkSkipped : w.obs = lastObs' /\ w.panicked = crashed']_vars

\* the indices of the path-label regexps that match a name
PathMatches(name) ==
    {i \in DOMAIN C.pathlabels : MatchString(C.pathlabels[i].re, name)}
\* the working name the claim gives a node whose path is matched by the
\* regexp re of the label: the matched text removed, and the label name
\* when nothing is left
CaptureName(node, label, re) ==
    IF Len(StringsReplace(node, FindStringSubmatch(re, node)[1])) < 1 THEN label
    ELSE StringsReplace(node, FindStringSubmatch(re, node)[1])

\* C27: in the second generation (extractJSON / extractJSONArray), at every
\* node, for each path-label regexp with a capture group that matches the
\* path of the node, the label is pushed with the text of the first capture
\* group as its value; where one such regexp matches, the matched text is
\* removed from the working name, and a name left empty becomes the label
\* name.
C27_CaptureGroup ==
    [][(WalkStep /\ C.variant = 2) =>
          \A a \in last'.applied :
              \A i \in DOMAIN a.matched :
                  PathLabelRegexp(C, a.matched[i]).grp = 1 =>
                      /\ <<ExportedName(a.matched[i]),
                            FindStringSubmatch(PathLabelRegexp(C, a.matched[i]),
                                               a.node)[2]>> \in a.pairs
                      /\ Len(a.matched) = 1 =>
                            a.name = CaptureName(a.node, a.matched[i],
                                                 PathLabelRegexp(C, a.matched[i]))]_vars

\* every one of these path labels has a regexp with a capture group
AllCapture(ls) == \A i \in DOMAIN ls : PathLabelRegexp(C, ls[i]).grp = 1

\* C28: when k path-label regexps match the path of a node, all k labels
\* are applied: k labels are pushed at the node, for its subtree (that they
\* are removed together afterwards is C11).
C28_AllApplied ==
    [][WalkStep =>
          \A a \in last'.applied :
              AllCapture(a.matched) => a.pushed = Len(a.matched)]_vars

\* the names of the value labels still pending
PendingLabels == {startup.regexMap[i].name : i \in DOMAIN startup.regexMap}

\* C29: a value label that is no longer pending has been added to the label
\* set: a match on a field whose value is an object, an array or null does
\* not consume the label without recording a value.
C29_ConsumedRecorded ==
    startup.phase \in {"labels", "serving"} =>
        \A i \in DOMAIN C.valuelabels :
            C.valuelabels[i].name \notin PendingLabels =>
                \E j \in DOMAIN ValueLabelNames :
                    ValueLabelNames[j] = C.valuelabels[i].name

\* C30: the series map, the map of live counters and the map of baseline
\* counters always have the same set of names.
C30_SameNames ==
    /\ DOMAIN gauges = DOMAIN updated
    /\ DOMAIN gauges = DOMAIN exist
\* a cycle has just started: a name the preceding call reported has been
\* removed from the three maps, and other names remain in them
C30_Witness ==
    /\ last.kind = "begin"
    /\ DOMAIN gauges # {}
    /\ \E name \in ReportedNames :
          name \notin (DOMAIN gauges \cup DOMAIN updated \cup DOMAIN exist)

\* the accepted observations of a name made by the step taken
ObservedAs(name) == {o \in lastObs' : o.name = name}

\* C31: an accepted observation of a name not in the series map creates the
\* series with both counters 0; every accepted observation sets the value
\* for the current label combination, overwriting the one held, and adds
\* one to the live counter.  In a walk step: a new name has baseline 0, the
\* live counter of every name grows by the number of its observations, a
\* label combination observed holds an observed value, and any other keeps
\* the value it had.
C31_Observe ==
    [][FetchStep =>
          /\ \A name \in DOMAIN gauges' \ DOMAIN gauges :
                exist'[name] = 0 /\ ObservedAs(name) # {}
          /\ \A name \in DOMAIN gauges' :
                /\ updated'[name] = CountBefore(name) + Cardinality(ObservedAs(name))
                /\ \A lv \in DOMAIN gauges'[name].vals :
                      IF \E o \in ObservedAs(name) : o.labelvalues = lv
                      THEN \E o \in ObservedAs(name) :
                              o.labelvalues = lv /\ o.value = gauges'[name].vals[lv]
                      ELSE /\ name \in DOMAIN gauges
                           /\ lv \in DOMAIN gauges[name].vals
                           /\ gauges'[name].vals[lv] = gauges[name].vals[lv]
          /\ DOMAIN gauges \subseteq DOMAIN gauges']_vars
\* a name created in the current cycle has been observed a second time by
\* the document of another URL, which has overwritten its value
C31_Witness ==
    /\ last.kind = "fetch" /\ last.url = 2
    /\ \E o \in lastObs :
          /\ o.name \in DOMAIN gauges
          /\ exist[o.name] = 0 /\ updated[o.name] = 2
          /\ gauges[o.name].vals[o.labelvalues] = o.value

\* C32: the next-refresh time is written only by the step that ends an
\* executed cycle, after the last URL, to the current time plus the
\* interval; a cycle begins only when that time lies before the current
\* time, that is later than the interval after the end of the cycle before
\* it; and a URL is scraped only by a caller of Collect that holds the mutex.
C32_NextRefresh ==
    [][/\ nextrefresh' # nextrefresh =>
             /\ FetchStep /\ last'.done /\ idx = Len(C.Urls)
             /\ nextrefresh' = now + C.interval
       /\ (FetchStep /\ last'.done) => nextrefresh' = now + C.interval
       /\ BeginStep => nextrefresh < now
       /\ FetchStep => \E p \in Procs : pc[p] = "fetch" /\ mutex = p]_vars
\* a second cycle has begun, later than the interval after the end of the
\* first one
C32_Witness ==
    /\ last.kind = "begin"
    /\ seenPrev # {}
    /\ C.interval = DefaultInterval
    /\ nextrefresh < now

\* C33: every collection pass ends and releases the mutex, also when the
\* walk faults part-way, so that a request waiting behind it runs.  In the
\* form a finite run refutes: no request is left waiting for the mutex in a
\* process that a fault has ended, where no step can ever serve it.
C33_BlockedRequestRuns ==
    \A p \in Procs : pc[p] = "lock" => ~crashed

\* no path-label regexp matches the name or a prefix of it: the path labels
\* leave a field of this name alone
PathFree(raw) == \A n \in 1..Len(raw) : PathMatches(SubSeq(raw, 1, n)) = {}

\* C34: the value labels of the start-up do not change what the walk
\* observes: in every walk that no fault ends, a numeric or boolean leaf of
\* the fetched document whose field the start-up consumed as a value label
\* (as a number or a boolean) is observed, with its value, under the name
\* joined from its path, provided no filter and no path label applies to it.
C34_ConsumedStillObserved ==
    [][(WalkStep /\ ~crashed' /\ C.blacklist.nil /\ C.whitelist.nil) =>
          \A i \in DOMAIN startup.log :
              startup.log[i].t \in {"num", "bool"} =>
                  \A l \in {x \in StepLeaves : x.raw = startup.log[i].name} :
                      PathFree(l.raw) =>
                          \E o \in lastObs' :
                              /\ o.name = ExportedName(l.raw)
                              /\ o.value = l.value]_vars
\* the field a.b, consumed as the label c at start-up, and the boolean q,
\* consumed as the label v, are observed as a_b and q in a cycle
C34_Witness ==
    /\ cfg.id = "value"
    /\ last.kind = "fetch" /\ ~crashed
    /\ \E i, j \in DOMAIN startup.log :
          /\ startup.log[i].t = "num" /\ startup.log[i].label = <<"c">>
          /\ startup.log[j].t = "bool" /\ startup.log[j].label = <<"v">>
          /\ \E o \in lastObs :
                /\ o.name = startup.log[i].name
                /\ \E n \in DOMAIN o.labels : o.labels[n] = <<"c">>
          /\ seenCur # {}
          /\ \E o \in obsCur \cup lastObs : o.name = startup.log[j].name
====
